---------------------------- MODULE Spec2Model ----------------------------
(***************************************************************************)
(* Model of the in-memory TTL cache of the museum catalogue browser:       *)
(* utils/almacen_datos.py (EntradaCache, AlmacenDatos).                    *)
(*                                                                         *)
(* Python values are records tagged with their type ("tipo"); None is a    *)
(* value of its own, so that an empty list and None stay distinct.  A     *)
(* dict is a sequence of <clave, entrada> pairs in insertion order.  Time  *)
(* (time.time()) is the integer variable reloj, in seconds.                *)
(*                                                                         *)
(* Every operation of AlmacenDatos is an operator from the store record    *)
(* (and the current time) to the new store record and the returned value;  *)
(* the actions apply these operators.                                      *)
(*                                                                         *)
(* The callers of one run use one part of the interface (perfil): one of   *)
(* the four regions with all its inputs and the instants around its TTL,   *)
(* or all regions together ("conjunto") with one value per key, or a       *)
(* stand-alone EntradaCache ("entrada"), or the store through              *)
(* ServicioObras.obtener_detalles_obra ("servicio").                       *)
(*                                                                         *)
(* Spec has a single caller, every call one step.  SpecHilos has two       *)
(* threads that contend for self._lock, the body of a call several steps,  *)
(* on a store that starts empty ("hilos") or at the threshold of the       *)
(* automatic sweep ("hilos_lleno").                                        *)
(***************************************************************************)
EXTENDS Integers, Sequences, FiniteSets, TLC

VARIABLES
    reloj,      \* time.time(), in seconds
    almacen,    \* the AlmacenDatos instance: its four regions and _estadisticas
    retorno,    \* what the last completed call returned (or raised)
    entrada,    \* a stand-alone EntradaCache under test (None when there is none)
    sombra,     \* history: per key, the last put / invalidation (not program state)
    perfil,     \* the part of the interface the callers of this run use
    hilos,      \* per thread: where it is in its call, and the call's locals
    candado,    \* self._lock: the thread that holds it, 0 when it is free
    almacen_sec \* the store had the calls run one at a time (not program state)

\* the state of the threads, untouched by the calls of a single caller
concurrencia == <<hilos, candado, almacen_sec>>

vars == <<reloj, almacen, retorno, entrada, sombra, perfil, hilos, candado,
          almacen_sec>>

----------------------------------------------------------------------------
(* Bounds of the model *)

\* hits + misses of a run that uses one region never exceed this many
MaxConsultas == 2

\* hits + misses of a run that uses all regions never exceed this many
MaxConsultasConjunto == 1

\* tiempo_vida of a stand-alone EntradaCache ranges over 1..MaxTiempoVida
MaxTiempoVida == 3

\* hits + misses of a run of the works service never exceed this many
MaxConsultasServicio == 3

\* the threads of a run make at most this many calls between them
MaxLlamadas == 4

\* the same, in a run on a store that starts at the threshold of the sweep
\* and in a run of puts
MaxLlamadasLleno == 3

\* the automatic sweep runs at most this many times in a run
MaxLimpiezas == 2
MaxConsultasBusqueda == 4
MaxLlamadasServicio == 2
MaxLlamadasJusto == 2
MaxConsultasListas == 2
MaxLlamadasJustoLleno == 2
MaxLlamadasReentrante == 3

----------------------------------------------------------------------------
(* Program constants *)

TIEMPO_VIDA_OBRAS == 600
TIEMPO_VIDA_DEPARTAMENTOS == 1800
TIEMPO_VIDA_BUSQUEDAS == 300
TIEMPO_VIDA_LISTAS_IDS == 180
UMBRAL_LIMPIEZA == 1000

----------------------------------------------------------------------------
(* Python values *)

None == [tipo |-> "None"]

Lista(elems) == [tipo |-> "list", elems |-> elems]

Str(texto) == [tipo |-> "str", texto |-> texto]

Bool(b) == [tipo |-> "bool", b |-> b]

Entero(n) == [tipo |-> "int", n |-> n]

ObraArte(id_obra, clasificacion) ==
    [tipo |-> "ObraArte", id_obra |-> id_obra, clasificacion |-> clasificacion]

Departamento(id_departamento, nombre) ==
    [tipo |-> "Departamento", id_departamento |-> id_departamento, nombre |-> nombre]

ValueError == [tipo |-> "ValueError"]

KeyError == [tipo |-> "KeyError"]

ZeroDivisionError == [tipo |-> "ZeroDivisionError"]

\* the exceptions a call may end with
Excepciones == {ValueError, KeyError, ZeroDivisionError}

RECURSIVE MCD(_, _)
\* greatest common divisor
MCD(m, n) == IF n = 0 THEN m ELSE MCD(n, m % n)

\* the float num / den (den > 0), as the fraction in lowest terms
Float(num, den) ==
    [tipo |-> "float", num |-> num \div MCD(num, den), den |-> den \div MCD(num, den)]

\* m / n on ints: a float, or ZeroDivisionError
Dividir(m, n) == IF n = 0 THEN ZeroDivisionError ELSE Float(m, n)

\* isinstance(v, T)
isinstance(v, T) == v.tipo = T

----------------------------------------------------------------------------
(* Inputs *)

Regiones == {"obras", "departamentos", "busquedas", "ids_departamento"}

Perfiles == Regiones \cup {"conjunto", "entrada", "servicio", "claves"}

IdsObra == {1, 2}
ClavesBusqueda == {"nacionalidad:french"}
IdsDepartamento == {1}

Obras ==
    {ObraArte(1, "Paintings"), ObraArte(1, "Sculptures"), ObraArte(2, "Paintings")}
ListasIds == {Lista(<< >>), Lista(<<1>>)}
ListasDepartamentos ==
    {Lista(<< >>), Lista(<<Departamento(1, "European Paintings")>>)}

\* ObraArte(id_obra, ...): the constructor refuses an id that is not a
\* positive integer
NuevaObraArte(id_obra, clasificacion) ==
    IF id_obra <= 0 THEN ValueError ELSE ObraArte(id_obra, clasificacion)

\* the ids, in and out of the domain, that the callers of profile "claves" try
IdsCandidatos == {-1, 0, 1}

\* values of the wrong type, for the puts
NoEsObra == Str("no es una obra")
NoEsLista == Str("no es una lista")

\* the arguments the callers of profile p pass
ObrasDe(p) ==
    IF p = "obras" THEN Obras \cup {NoEsObra}
    ELSE IF p = "conjunto" THEN {ObraArte(1, "Paintings")}
    ELSE IF p = "lleno" THEN {ObraArte(1, "Paintings"), ObraArte(2, "Paintings")}
    ELSE IF p = "claves"
    THEN {NuevaObraArte(i, "Paintings") : i \in IdsCandidatos} \ {ValueError}
    ELSE {}

IdsObraDe(p) ==
    IF p = "obras" THEN IdsObra ELSE IF p = "conjunto" THEN {1} ELSE {}

DepartamentosDe(p) ==
    IF p = "departamentos" THEN ListasDepartamentos \cup {NoEsLista}
    ELSE IF p \in {"conjunto", "lleno"}
         THEN {Lista(<<Departamento(1, "European Paintings")>>)} ELSE {}

BusquedasDe(p) ==
    IF p = "busquedas" THEN ListasIds \cup {NoEsLista}
    ELSE IF p \in {"conjunto", "lleno"} THEN {Lista(<<1>>)} ELSE {}

ListasIdsDe(p) ==
    IF p = "ids_departamento" THEN ListasIds \cup {NoEsLista}
    ELSE IF p \in {"conjunto", "lleno", "claves"} THEN {Lista(<<1>>)} ELSE {}

\* the department ids the callers of profile p pass to the store
IdsDepartamentoDe(p) ==
    IF p = "claves" THEN IdsCandidatos \ {1} ELSE IdsDepartamento

\* the predicates passed to buscar_obras_por_criterio, each as the set of
\* works for which it holds
Criterios ==
    {{o \in Obras : o.clasificacion = "Paintings"}, Obras}

\* the instants at which the clock is observed in profile p: around the
\* region's TTL; with all regions, the shortest and the longest TTL
InstantesDe(p) ==
    IF p \in {"obras", "servicio"}
    THEN {0, TIEMPO_VIDA_OBRAS - 1, TIEMPO_VIDA_OBRAS, 2 * TIEMPO_VIDA_OBRAS}
    ELSE IF p = "departamentos"
    THEN {0, TIEMPO_VIDA_DEPARTAMENTOS - 1, TIEMPO_VIDA_DEPARTAMENTOS,
          2 * TIEMPO_VIDA_DEPARTAMENTOS}
    ELSE IF p = "busquedas"
    THEN {0, TIEMPO_VIDA_BUSQUEDAS - 1, TIEMPO_VIDA_BUSQUEDAS,
          2 * TIEMPO_VIDA_BUSQUEDAS}
    ELSE IF p = "ids_departamento"
    THEN {0, TIEMPO_VIDA_LISTAS_IDS - 1, TIEMPO_VIDA_LISTAS_IDS,
          2 * TIEMPO_VIDA_LISTAS_IDS}
    ELSE IF p = "conjunto"
    THEN {0, TIEMPO_VIDA_LISTAS_IDS, TIEMPO_VIDA_DEPARTAMENTOS}
    ELSE IF p \in {"hilos", "hilos_lleno", "hilos_puts", "hilos_justo",
                    "hilos_justo_lleno", "hilos_reentrante"}
    THEN {0, TIEMPO_VIDA_OBRAS}
    ELSE IF p = "lleno"
    THEN {0, TIEMPO_VIDA_DEPARTAMENTOS}
    ELSE IF p = "claves"
    THEN {0, TIEMPO_VIDA_LISTAS_IDS}
    ELSE IF p \in {"servicio_departamento", "listas_departamento"}
    THEN {0, TIEMPO_VIDA_LISTAS_IDS, TIEMPO_VIDA_OBRAS}
    ELSE IF p \in {"servicio_texto", "listas_texto"}
    THEN {0, TIEMPO_VIDA_BUSQUEDAS, TIEMPO_VIDA_OBRAS}
    ELSE IF p = "servicio_departamentos"
    THEN {0, TIEMPO_VIDA_DEPARTAMENTOS}
    ELSE 0 .. (MaxTiempoVida + 1)

\* the cap on hits + misses in profile p
MaxConsultasDe(p) ==
    IF p = "conjunto" THEN MaxConsultasConjunto
    ELSE IF p = "servicio" THEN MaxConsultasServicio
    ELSE MaxConsultas

----------------------------------------------------------------------------
(* dict *)

\* k in d
DictContiene(d, k) == \E i \in DOMAIN d : d[i].clave = k

\* d[k] : KeyError when k is not in d
DictLeer(d, k) ==
    IF DictContiene(d, k)
    THEN d[CHOOSE i \in DOMAIN d : d[i].clave = k].entrada
    ELSE KeyError

\* d[k] = e with every assignment appending a pair (not what a dict does)
DictAsignarDuplica(d, k, e) == Append(d, [clave |-> k, entrada |-> e])

\* d[k] = e : replaces the value of an existing key in place, else appends
DictAsignar(d, k, e) ==
    IF DictContiene(d, k)
    THEN [i \in DOMAIN d |->
            IF d[i].clave = k THEN [clave |-> k, entrada |-> e] ELSE d[i]]
    ELSE Append(d, [clave |-> k, entrada |-> e])

\* del d[k]
DictEliminar(d, k) == SelectSeq(d, LAMBDA p : p.clave # k)

\* d.keys()
DictClaves(d) == {d[i].clave : i \in DOMAIN d}

----------------------------------------------------------------------------
(* EntradaCache *)

\* EntradaCache(datos, tiempo_vida) constructed at time ahora
EntradaCache(datos, tiempo_vida, ahora) ==
    [datos |-> datos, timestamp |-> ahora, tiempo_vida |-> tiempo_vida]

\* es_valida with the comparison not strict
es_valida_no_estricta(e, ahora) == (ahora - e.timestamp) <= e.tiempo_vida

es_valida(e, ahora) == (ahora - e.timestamp) < e.tiempo_vida

\* obtener_datos that never looks at the age
obtener_datos_sin_ttl(e, ahora) == e.datos

obtener_datos(e, ahora) == IF es_valida(e, ahora) THEN e.datos ELSE None

----------------------------------------------------------------------------
(* AlmacenDatos: construction and the expiry sweep *)

AlmacenVacio ==
    [cache_obras |-> << >>,
     cache_departamentos |-> None,
     cache_busquedas |-> << >>,
     cache_ids_departamento |-> << >>,
     estadisticas |->
        [hits_obras |-> 0, misses_obras |-> 0,
         hits_departamentos |-> 0, misses_departamentos |-> 0,
         hits_busquedas |-> 0, misses_busquedas |-> 0,
         limpiezas_automaticas |-> 0]]

\* the entries of d that are valid at ahora, in order
SoloValidas(d, ahora) == SelectSeq(d, LAMBDA p : es_valida(p.entrada, ahora))

\* _limpiar_entradas_expiradas that forgets the departments slot
limpiar_entradas_expiradas_sin_departamentos(a, ahora) ==
    [a EXCEPT
        !.cache_obras = SoloValidas(@, ahora),
        !.cache_busquedas = SoloValidas(@, ahora),
        !.cache_ids_departamento = SoloValidas(@, ahora)]

\* _limpiar_entradas_expiradas that empties the works, expired or not
limpiar_entradas_expiradas_obras_todas(a, ahora) ==
    [a EXCEPT
        !.cache_obras = << >>,
        !.cache_busquedas = SoloValidas(@, ahora),
        !.cache_ids_departamento = SoloValidas(@, ahora),
        !.cache_departamentos =
            IF @ # None /\ ~es_valida(@, ahora) THEN None ELSE @]

limpiar_entradas_expiradas(a, ahora) ==
    [a EXCEPT
        !.cache_obras = SoloValidas(@, ahora),
        !.cache_busquedas = SoloValidas(@, ahora),
        !.cache_ids_departamento = SoloValidas(@, ahora),
        !.cache_departamentos =
            IF @ # None /\ ~es_valida(@, ahora) THEN None ELSE @]

\* _limpiar_cache_si_necesario that sweeps from UMBRAL_LIMPIEZA entries on
limpiar_cache_si_necesario_umbral_incluido(a, ahora) ==
    IF Len(a.cache_obras) + Len(a.cache_busquedas) + Len(a.cache_ids_departamento)
         >= UMBRAL_LIMPIEZA
    THEN [limpiar_entradas_expiradas(a, ahora)
            EXCEPT !.estadisticas.limpiezas_automaticas = @ + 1]
    ELSE a

limpiar_cache_si_necesario(a, ahora) ==
    LET total_entradas == Len(a.cache_obras) + Len(a.cache_busquedas)
                          + Len(a.cache_ids_departamento)
    IN  IF total_entradas > UMBRAL_LIMPIEZA
        THEN [limpiar_entradas_expiradas(a, ahora)
                EXCEPT !.estadisticas.limpiezas_automaticas = @ + 1]
        ELSE a

----------------------------------------------------------------------------
(* AlmacenDatos: the public operations.  Each maps the store a (and the    *)
(* time ahora read inside the critical section) to [alm, ret]: the store   *)
(* after the call and the value returned; ret = ValueError when it raises. *)

Resultado(a, r) == [alm |-> a, ret |-> r]

\* obtener_obra that keeps an expired entry in the map
obtener_obra_sin_desalojo(a, id_obra, ahora) ==
    IF DictContiene(a.cache_obras, id_obra)
       /\ obtener_datos(DictLeer(a.cache_obras, id_obra), ahora) # None
    THEN Resultado([a EXCEPT !.estadisticas.hits_obras = @ + 1],
                   obtener_datos(DictLeer(a.cache_obras, id_obra), ahora))
    ELSE Resultado([a EXCEPT !.estadisticas.misses_obras = @ + 1], None)

\* obtener_obra that counts an expired entry as a hit
obtener_obra_cuenta_mal(a, id_obra, ahora) ==
    IF DictContiene(a.cache_obras, id_obra)
    THEN LET obra == obtener_datos(DictLeer(a.cache_obras, id_obra), ahora)
         IN  IF obra # None
             THEN Resultado([a EXCEPT !.estadisticas.hits_obras = @ + 1], obra)
             ELSE Resultado(
                    [a EXCEPT !.cache_obras = DictEliminar(@, id_obra),
                              !.estadisticas.hits_obras = @ + 1], None)
    ELSE Resultado([a EXCEPT !.estadisticas.misses_obras = @ + 1], None)

\* obtener_obra that reads the entry without asking whether the key is there
obtener_obra_sin_comprobar(a, id_obra, ahora) ==
    LET entrada_ == DictLeer(a.cache_obras, id_obra)
    IN  IF entrada_ = KeyError
        THEN Resultado(a, KeyError)
        ELSE IF obtener_datos(entrada_, ahora) # None
        THEN Resultado([a EXCEPT !.estadisticas.hits_obras = @ + 1],
                       obtener_datos(entrada_, ahora))
        ELSE Resultado(
                [a EXCEPT !.cache_obras = DictEliminar(@, id_obra),
                          !.estadisticas.misses_obras = @ + 1], None)

obtener_obra(a, id_obra, ahora) ==
    IF DictContiene(a.cache_obras, id_obra)
    THEN LET entrada_ == DictLeer(a.cache_obras, id_obra)
             obra == obtener_datos(entrada_, ahora)
         IN  IF obra # None
             THEN Resultado([a EXCEPT !.estadisticas.hits_obras = @ + 1], obra)
             ELSE Resultado(
                    [a EXCEPT !.cache_obras = DictEliminar(@, id_obra),
                              !.estadisticas.misses_obras = @ + 1], None)
    ELSE Resultado([a EXCEPT !.estadisticas.misses_obras = @ + 1], None)

\* almacenar_obra that stores the work without a new EntradaCache when the
\* key is present (the old timestamp stays)
almacenar_obra_muta(a, obra, ahora) ==
    IF ~isinstance(obra, "ObraArte")
    THEN Resultado(a, ValueError)
    ELSE LET t == IF DictContiene(a.cache_obras, obra.id_obra)
                  THEN DictLeer(a.cache_obras, obra.id_obra).timestamp
                  ELSE ahora
             e == [EntradaCache(obra, TIEMPO_VIDA_OBRAS, ahora)
                     EXCEPT !.timestamp = t]
         IN  Resultado(
                limpiar_cache_si_necesario(
                    [a EXCEPT !.cache_obras = DictAsignar(@, obra.id_obra, e)],
                    ahora),
                None)

almacenar_obra(a, obra, ahora) ==
    IF ~isinstance(obra, "ObraArte")
    THEN Resultado(a, ValueError)
    ELSE LET entrada_ == EntradaCache(obra, TIEMPO_VIDA_OBRAS, ahora)
         IN  Resultado(
                limpiar_cache_si_necesario(
                    [a EXCEPT !.cache_obras =
                                DictAsignar(@, obra.id_obra, entrada_)],
                    ahora),
                None)

obtener_departamentos(a, ahora) ==
    IF a.cache_departamentos # None
    THEN LET departamentos == obtener_datos(a.cache_departamentos, ahora)
         IN  IF departamentos # None
             THEN Resultado(
                    [a EXCEPT !.estadisticas.hits_departamentos = @ + 1],
                    departamentos)
             ELSE Resultado(
                    [a EXCEPT !.cache_departamentos = None,
                              !.estadisticas.misses_departamentos = @ + 1],
                    None)
    ELSE Resultado([a EXCEPT !.estadisticas.misses_departamentos = @ + 1], None)

almacenar_departamentos(a, departamentos, ahora) ==
    IF ~isinstance(departamentos, "list")
    THEN Resultado(a, ValueError)
    ELSE Resultado(
            [a EXCEPT !.cache_departamentos =
                EntradaCache(departamentos, TIEMPO_VIDA_DEPARTAMENTOS, ahora)],
            None)

\* obtener_resultado_busqueda that tests the list for truth: an empty list
\* is a miss
obtener_resultado_busqueda_vacia_es_fallo(a, clave_busqueda, ahora) ==
    IF DictContiene(a.cache_busquedas, clave_busqueda)
    THEN LET entrada_ == DictLeer(a.cache_busquedas, clave_busqueda)
             resultado == obtener_datos(entrada_, ahora)
         IN  IF resultado # None /\ resultado # Lista(<< >>)
             THEN Resultado([a EXCEPT !.estadisticas.hits_busquedas = @ + 1],
                            resultado)
             ELSE Resultado(
                    [a EXCEPT !.cache_busquedas = DictEliminar(@, clave_busqueda),
                              !.estadisticas.misses_busquedas = @ + 1], None)
    ELSE Resultado([a EXCEPT !.estadisticas.misses_busquedas = @ + 1], None)

obtener_resultado_busqueda(a, clave_busqueda, ahora) ==
    IF DictContiene(a.cache_busquedas, clave_busqueda)
    THEN LET entrada_ == DictLeer(a.cache_busquedas, clave_busqueda)
             resultado == obtener_datos(entrada_, ahora)
         IN  IF resultado # None
             THEN Resultado([a EXCEPT !.estadisticas.hits_busquedas = @ + 1],
                            resultado)
             ELSE Resultado(
                    [a EXCEPT !.cache_busquedas = DictEliminar(@, clave_busqueda),
                              !.estadisticas.misses_busquedas = @ + 1], None)
    ELSE Resultado([a EXCEPT !.estadisticas.misses_busquedas = @ + 1], None)

\* almacenar_resultado_busqueda that stores whatever it is given
almacenar_resultado_busqueda_sin_validar(a, clave_busqueda, ids_obras, ahora) ==
    Resultado(
        limpiar_cache_si_necesario(
            [a EXCEPT !.cache_busquedas =
                        DictAsignar(@, clave_busqueda,
                                    EntradaCache(ids_obras, TIEMPO_VIDA_BUSQUEDAS,
                                                 ahora))],
            ahora),
        None)

\* almacenar_resultado_busqueda building its entry with the TTL of the works
almacenar_resultado_busqueda_ttl_de_obras(a, clave_busqueda, ids_obras, ahora) ==
    IF ~isinstance(ids_obras, "list")
    THEN Resultado(a, ValueError)
    ELSE LET entrada_ == EntradaCache(ids_obras, TIEMPO_VIDA_OBRAS, ahora)
         IN  Resultado(
                limpiar_cache_si_necesario(
                    [a EXCEPT !.cache_busquedas =
                                DictAsignar(@, clave_busqueda, entrada_)],
                    ahora),
                None)

almacenar_resultado_busqueda(a, clave_busqueda, ids_obras, ahora) ==
    IF ~isinstance(ids_obras, "list")
    THEN Resultado(a, ValueError)
    ELSE LET entrada_ == EntradaCache(ids_obras, TIEMPO_VIDA_BUSQUEDAS, ahora)
         IN  Resultado(
                limpiar_cache_si_necesario(
                    [a EXCEPT !.cache_busquedas =
                                DictAsignar(@, clave_busqueda, entrada_)],
                    ahora),
                None)

obtener_ids_departamento(a, id_departamento, ahora) ==
    IF DictContiene(a.cache_ids_departamento, id_departamento)
    THEN LET entrada_ == DictLeer(a.cache_ids_departamento, id_departamento)
             ids == obtener_datos(entrada_, ahora)
         IN  IF ids # None
             THEN Resultado(a, ids)
             ELSE Resultado(
                    [a EXCEPT !.cache_ids_departamento =
                                DictEliminar(@, id_departamento)], None)
    ELSE Resultado(a, None)

\* almacenar_ids_departamento that ends with _limpiar_cache_si_necesario, as
\* almacenar_obra does
almacenar_ids_departamento_con_limpieza(a, id_departamento, ids_obras, ahora) ==
    IF ~isinstance(ids_obras, "list")
    THEN Resultado(a, ValueError)
    ELSE Resultado(
            limpiar_cache_si_necesario(
                [a EXCEPT !.cache_ids_departamento =
                    DictAsignar(@, id_departamento,
                        EntradaCache(ids_obras, TIEMPO_VIDA_LISTAS_IDS, ahora))],
                ahora),
            None)

almacenar_ids_departamento(a, id_departamento, ids_obras, ahora) ==
    IF ~isinstance(ids_obras, "list")
    THEN Resultado(a, ValueError)
    ELSE Resultado(
            [a EXCEPT !.cache_ids_departamento =
                DictAsignar(@, id_departamento,
                    EntradaCache(ids_obras, TIEMPO_VIDA_LISTAS_IDS, ahora))],
            None)

\* the scan of buscar_obras_por_criterio reading entrada.datos without
\* asking the entry whether it is still valid
RECURSIVE ObrasEncontradas_sin_ttl(_, _, _)
ObrasEncontradas_sin_ttl(d, criterio, ahora) ==
    IF d = << >> THEN << >>
    ELSE LET obra == Head(d).entrada.datos
             resto == ObrasEncontradas_sin_ttl(Tail(d), criterio, ahora)
         IN  IF obra # None /\ obra \in criterio
             THEN <<obra>> \o resto
             ELSE resto

\* the valid works of d for which criterio holds, in the order of the dict
RECURSIVE ObrasEncontradas(_, _, _)
ObrasEncontradas(d, criterio, ahora) ==
    IF d = << >> THEN << >>
    ELSE LET obra == obtener_datos(Head(d).entrada, ahora)
             resto == ObrasEncontradas(Tail(d), criterio, ahora)
         IN  IF obra # None /\ obra \in criterio
             THEN <<obra>> \o resto
             ELSE resto

\* criterio is the set of works for which the caller's predicate holds
buscar_obras_por_criterio(a, criterio, ahora) ==
    Resultado(a, Lista(ObrasEncontradas(a.cache_obras, criterio, ahora)))

\* invalidar_cache_obras that clears the searches as well
invalidar_cache_obras_de_mas(a) ==
    Resultado([a EXCEPT !.cache_obras = << >>, !.cache_busquedas = << >>], None)

invalidar_cache_obras(a) == Resultado([a EXCEPT !.cache_obras = << >>], None)

invalidar_cache_departamentos(a) ==
    Resultado([a EXCEPT !.cache_departamentos = None], None)

invalidar_cache_busquedas(a) ==
    Resultado([a EXCEPT !.cache_busquedas = << >>], None)

\* invalidar_todo_cache that forgets the lists of ids by department
invalidar_todo_cache_olvida_ids(a) ==
    Resultado([a EXCEPT !.cache_obras = << >>,
                        !.cache_departamentos = None,
                        !.cache_busquedas = << >>], None)

invalidar_todo_cache(a) ==
    Resultado([a EXCEPT !.cache_obras = << >>,
                        !.cache_departamentos = None,
                        !.cache_busquedas = << >>,
                        !.cache_ids_departamento = << >>], None)

\* 1 if self._cache_departamentos else 0 (an EntradaCache is always truthy)
HayDepartamentos(a) == IF a.cache_departamentos # None THEN 1 ELSE 0

\* the sum of _estimar_uso_memoria with 0.1 KB for the departments slot
memoria_en_decimas_una_decima(a) ==
    Len(a.cache_obras) * 20
    + (IF a.cache_departamentos # None THEN 1 ELSE 0)
    + Len(a.cache_busquedas) * 5
    + Len(a.cache_ids_departamento) * 10

\* _estimar_uso_memoria, the sum in tenths of KB: 2 per work, 5 for the
\* departments, 0.5 per search, 1 per list of ids
memoria_en_decimas(a) ==
    Len(a.cache_obras) * 20
    + (IF a.cache_departamentos # None THEN 50 ELSE 0)
    + Len(a.cache_busquedas) * 5
    + Len(a.cache_ids_departamento) * 10

\* int(x) of the non-negative x given in tenths
int_de_decimas(x) == x \div 10

estimar_uso_memoria(a) == int_de_decimas(memoria_en_decimas(a))

\* the ratio computed from the misses instead of the hits
hit_ratio_de_fallos(hits, total) ==
    IF total > 0 THEN Dividir(total - hits, total) ELSE Entero(0)

\* hits / total if total > 0 else 0

hit_ratio(hits, total) == IF total > 0 THEN Dividir(hits, total) ELSE Entero(0)

\* the statistics with the count of the lists of ids taken from the map of
\* the searches
obtener_estadisticas_cache_ids_copiado(a) ==
    LET e == a.estadisticas
    IN  Resultado(a,
            [tipo |-> "dict",
             hits_obras |-> e.hits_obras,
             misses_obras |-> e.misses_obras,
             hits_departamentos |-> e.hits_departamentos,
             misses_departamentos |-> e.misses_departamentos,
             hits_busquedas |-> e.hits_busquedas,
             misses_busquedas |-> e.misses_busquedas,
             limpiezas_automaticas |-> e.limpiezas_automaticas,
             obras_en_cache |-> Len(a.cache_obras),
             busquedas_en_cache |-> Len(a.cache_busquedas),
             departamentos_en_cache |-> HayDepartamentos(a),
             ids_departamentos_en_cache |-> Len(a.cache_busquedas),
             memoria_estimada_kb |-> estimar_uso_memoria(a),
             hit_ratio_obras |->
                hit_ratio(e.hits_obras, e.hits_obras + e.misses_obras),
             hit_ratio_departamentos |->
                hit_ratio(e.hits_departamentos,
                          e.hits_departamentos + e.misses_departamentos),
             hit_ratio_busquedas |->
                hit_ratio(e.hits_busquedas,
                          e.hits_busquedas + e.misses_busquedas)])

obtener_estadisticas_cache(a) ==
    LET e == a.estadisticas
    IN  Resultado(a,
            [tipo |-> "dict",
             hits_obras |-> e.hits_obras,
             misses_obras |-> e.misses_obras,
             hits_departamentos |-> e.hits_departamentos,
             misses_departamentos |-> e.misses_departamentos,
             hits_busquedas |-> e.hits_busquedas,
             misses_busquedas |-> e.misses_busquedas,
             limpiezas_automaticas |-> e.limpiezas_automaticas,
             obras_en_cache |-> Len(a.cache_obras),
             busquedas_en_cache |-> Len(a.cache_busquedas),
             departamentos_en_cache |-> HayDepartamentos(a),
             ids_departamentos_en_cache |-> Len(a.cache_ids_departamento),
             memoria_estimada_kb |-> estimar_uso_memoria(a),
             hit_ratio_obras |->
                hit_ratio(e.hits_obras, e.hits_obras + e.misses_obras),
             hit_ratio_departamentos |->
                hit_ratio(e.hits_departamentos,
                          e.hits_departamentos + e.misses_departamentos),
             hit_ratio_busquedas |->
                hit_ratio(e.hits_busquedas,
                          e.hits_busquedas + e.misses_busquedas)])

\* limpiar_cache_manual that counts itself as an automatic sweep
limpiar_cache_manual_cuenta_limpieza(a, ahora) ==
    LET d == [limpiar_entradas_expiradas(a, ahora)
                EXCEPT !.estadisticas.limpiezas_automaticas = @ + 1]
    IN  Resultado(d,
            [tipo |-> "dict",
             obras_eliminadas |-> Len(a.cache_obras) - Len(d.cache_obras),
             busquedas_eliminadas |->
                Len(a.cache_busquedas) - Len(d.cache_busquedas),
             ids_departamentos_eliminados |->
                Len(a.cache_ids_departamento) - Len(d.cache_ids_departamento),
             departamentos_eliminados |->
                HayDepartamentos(a) - HayDepartamentos(d)])

limpiar_cache_manual(a, ahora) ==
    LET d == limpiar_entradas_expiradas(a, ahora)
    IN  Resultado(d,
            [tipo |-> "dict",
             obras_eliminadas |-> Len(a.cache_obras) - Len(d.cache_obras),
             busquedas_eliminadas |->
                Len(a.cache_busquedas) - Len(d.cache_busquedas),
             ids_departamentos_eliminados |->
                Len(a.cache_ids_departamento) - Len(d.cache_ids_departamento),
             departamentos_eliminados |->
                HayDepartamentos(a) - HayDepartamentos(d)])

----------------------------------------------------------------------------
(* History of the puts and invalidations, kept beside the store in the     *)
(* runs that use one region or the works service (elsewhere it is None).  Per key: "vacia"   *)
(* (never stored), "puesta" (stored, with the value and time of the last   *)
(* put, the region's TTL not elapsed since, no invalidation since),        *)
(* "caducada" (the TTL elapsed since the last put), "invalidada" (its      *)
(* region was invalidated after the last put), "vacia_invalidada" (never   *)
(* stored, region invalidated).                                            *)

Huella(estado, v, t) == [estado |-> estado, valor |-> v, t |-> t]

SinPoner == Huella("vacia", None, 0)

Puesta(v, t) == Huella("puesta", v, t)

Invalidar(h) ==
    IF h.estado \in {"vacia", "vacia_invalidada"}
    THEN Huella("vacia_invalidada", None, 0)
    ELSE Huella("invalidada", None, 0)

Caducar(h, tiempo_vida, ahora) ==
    IF h.estado = "puesta" /\ ahora - h.t >= tiempo_vida
    THEN Huella("caducada", None, 0)
    ELSE h

SombraInicial ==
    [obras |-> [i \in IdsObra |-> SinPoner],
     departamentos |-> SinPoner,
     busquedas |-> [k \in ClavesBusqueda |-> SinPoner],
     ids_departamento |-> [d \in IdsDepartamento |-> SinPoner]]

SombraPoner(s, region, k, v, ahora) ==
    IF s = None THEN None
    ELSE IF region = "departamentos"
         THEN [s EXCEPT !.departamentos = Puesta(v, ahora)]
         ELSE [s EXCEPT ![region][k] = Puesta(v, ahora)]

SombraInvalidar(s, regiones) ==
    IF s = None THEN None
    ELSE [obras |-> IF "obras" \in regiones
                    THEN [i \in IdsObra |-> Invalidar(s.obras[i])]
                    ELSE s.obras,
          departamentos |-> IF "departamentos" \in regiones
                            THEN Invalidar(s.departamentos)
                            ELSE s.departamentos,
          busquedas |-> IF "busquedas" \in regiones
                        THEN [k \in ClavesBusqueda |-> Invalidar(s.busquedas[k])]
                        ELSE s.busquedas,
          ids_departamento |->
                IF "ids_departamento" \in regiones
                THEN [d \in IdsDepartamento |-> Invalidar(s.ids_departamento[d])]
                ELSE s.ids_departamento]

SombraAvanzar(s, ahora) ==
    IF s = None THEN None
    ELSE [obras |-> [i \in IdsObra |->
                        Caducar(s.obras[i], TIEMPO_VIDA_OBRAS, ahora)],
          departamentos |->
                Caducar(s.departamentos, TIEMPO_VIDA_DEPARTAMENTOS, ahora),
          busquedas |-> [k \in ClavesBusqueda |->
                        Caducar(s.busquedas[k], TIEMPO_VIDA_BUSQUEDAS, ahora)],
          ids_departamento |-> [d \in IdsDepartamento |->
                        Caducar(s.ids_departamento[d], TIEMPO_VIDA_LISTAS_IDS, ahora)]]

----------------------------------------------------------------------------
(* Calls by a single caller: the whole call (lock, body, unlock) is a step. *)
(* retorno records the operation, its key argument (a Python value, None   *)
(* when it has none) and what it returned.                                 *)

Llamada(op, clave, r) == [op |-> op, clave |-> clave, valor |-> r.ret]

\* hits + misses over the three counted regions
Consultas(a) ==
    a.estadisticas.hits_obras + a.estadisticas.misses_obras
    + a.estadisticas.hits_departamentos + a.estadisticas.misses_departamentos
    + a.estadisticas.hits_busquedas + a.estadisticas.misses_busquedas

ObtenerObra(id_obra) ==
    /\ LET r == obtener_obra(almacen, id_obra, reloj)
       IN  /\ almacen' = r.alm
           /\ retorno' = Llamada("obtener_obra", Entero(id_obra), r)
    /\ UNCHANGED <<reloj, sombra, entrada, perfil, concurrencia>>

AlmacenarObra(obra) ==
    /\ LET r == almacenar_obra(almacen, obra, reloj)
       IN  /\ almacen' = r.alm
           /\ retorno' = Llamada("almacenar_obra",
                                 IF r.ret = None THEN Entero(obra.id_obra) ELSE None, r)
           /\ sombra' = IF r.ret = None
                        THEN SombraPoner(sombra, "obras", obra.id_obra, obra, reloj)
                        ELSE sombra
    /\ UNCHANGED <<reloj, entrada, perfil, concurrencia>>

ObtenerDepartamentos ==
    /\ LET r == obtener_departamentos(almacen, reloj)
       IN  /\ almacen' = r.alm
           /\ retorno' = Llamada("obtener_departamentos", None, r)
    /\ UNCHANGED <<reloj, sombra, entrada, perfil, concurrencia>>

AlmacenarDepartamentos(departamentos) ==
    /\ LET r == almacenar_departamentos(almacen, departamentos, reloj)
       IN  /\ almacen' = r.alm
           /\ retorno' = Llamada("almacenar_departamentos", None, r)
           /\ sombra' = IF r.ret = None
                        THEN SombraPoner(sombra, "departamentos", 0, departamentos, reloj)
                        ELSE sombra
    /\ UNCHANGED <<reloj, entrada, perfil, concurrencia>>

ObtenerResultadoBusqueda(clave_busqueda) ==
    /\ LET r == obtener_resultado_busqueda(almacen, clave_busqueda, reloj)
       IN  /\ almacen' = r.alm
           /\ retorno' = Llamada("obtener_resultado_busqueda", Str(clave_busqueda), r)
    /\ UNCHANGED <<reloj, sombra, entrada, perfil, concurrencia>>

AlmacenarResultadoBusqueda(clave_busqueda, ids_obras) ==
    /\ LET r == almacenar_resultado_busqueda(almacen, clave_busqueda, ids_obras, reloj)
       IN  /\ almacen' = r.alm
           /\ retorno' = Llamada("almacenar_resultado_busqueda", Str(clave_busqueda), r)
           /\ sombra' = IF r.ret = None
                        THEN SombraPoner(sombra, "busquedas", clave_busqueda,
                                         ids_obras, reloj)
                        ELSE sombra
    /\ UNCHANGED <<reloj, entrada, perfil, concurrencia>>

ObtenerIdsDepartamento(id_departamento) ==
    /\ LET r == obtener_ids_departamento(almacen, id_departamento, reloj)
       IN  /\ almacen' = r.alm
           /\ retorno' = Llamada("obtener_ids_departamento", Entero(id_departamento), r)
    /\ UNCHANGED <<reloj, sombra, entrada, perfil, concurrencia>>

AlmacenarIdsDepartamento(id_departamento, ids_obras) ==
    /\ LET r == almacenar_ids_departamento(almacen, id_departamento, ids_obras, reloj)
       IN  /\ almacen' = r.alm
           /\ retorno' = Llamada("almacenar_ids_departamento", Entero(id_departamento), r)
           /\ sombra' = IF r.ret = None
                        THEN SombraPoner(sombra, "ids_departamento", id_departamento,
                                         ids_obras, reloj)
                        ELSE sombra
    /\ UNCHANGED <<reloj, entrada, perfil, concurrencia>>

BuscarObrasPorCriterio(criterio) ==
    /\ LET r == buscar_obras_por_criterio(almacen, criterio, reloj)
       IN  /\ almacen' = r.alm
           /\ retorno' = Llamada("buscar_obras_por_criterio", None, r)
    /\ UNCHANGED <<reloj, sombra, entrada, perfil, concurrencia>>

InvalidarCacheObras ==
    /\ LET r == invalidar_cache_obras(almacen)
       IN  /\ almacen' = r.alm
           /\ retorno' = Llamada("invalidar_cache_obras", None, r)
    /\ sombra' = SombraInvalidar(sombra, {"obras"})
    /\ UNCHANGED <<reloj, entrada, perfil, concurrencia>>

InvalidarCacheDepartamentos ==
    /\ LET r == invalidar_cache_departamentos(almacen)
       IN  /\ almacen' = r.alm
           /\ retorno' = Llamada("invalidar_cache_departamentos", None, r)
    /\ sombra' = SombraInvalidar(sombra, {"departamentos"})
    /\ UNCHANGED <<reloj, entrada, perfil, concurrencia>>

InvalidarCacheBusquedas ==
    /\ LET r == invalidar_cache_busquedas(almacen)
       IN  /\ almacen' = r.alm
           /\ retorno' = Llamada("invalidar_cache_busquedas", None, r)
    /\ sombra' = SombraInvalidar(sombra, {"busquedas"})
    /\ UNCHANGED <<reloj, entrada, perfil, concurrencia>>

InvalidarTodoCache ==
    /\ LET r == invalidar_todo_cache(almacen)
       IN  /\ almacen' = r.alm
           /\ retorno' = Llamada("invalidar_todo_cache", None, r)
    /\ sombra' = SombraInvalidar(sombra,
                    {"obras", "departamentos", "busquedas", "ids_departamento"})
    /\ UNCHANGED <<reloj, entrada, perfil, concurrencia>>

LimpiarCacheManual ==
    /\ LET r == limpiar_cache_manual(almacen, reloj)
       IN  /\ almacen' = r.alm
           /\ retorno' = Llamada("limpiar_cache_manual", None, r)
    /\ UNCHANGED <<reloj, sombra, entrada, perfil, concurrencia>>

ObtenerEstadisticasCache ==
    /\ LET r == obtener_estadisticas_cache(almacen)
       IN  /\ almacen' = r.alm
           /\ retorno' = Llamada("obtener_estadisticas_cache", None, r)
    /\ UNCHANGED <<reloj, sombra, entrada, perfil, concurrencia>>

\* time passes, to one of the instants observed
Avanzar ==
    /\ \E t \in InstantesDe(perfil) : t > reloj /\ reloj' = t
    /\ sombra' = SombraAvanzar(sombra, reloj')
    /\ UNCHANGED <<almacen, retorno, entrada, perfil, concurrencia>>

----------------------------------------------------------------------------
(* A stand-alone EntradaCache, as the unit tests use it *)

DatosDePrueba == {Str("test_data")}

CrearEntrada(datos, tiempo_vida) ==
    /\ entrada' = EntradaCache(datos, tiempo_vida, reloj)
    /\ retorno' = [op |-> "EntradaCache", clave |-> None, valor |-> None]
    /\ UNCHANGED <<reloj, almacen, sombra, perfil, concurrencia>>

EsValida ==
    /\ entrada # None
    /\ retorno' = [op |-> "es_valida", clave |-> None,
                   valor |-> Bool(es_valida(entrada, reloj))]
    /\ UNCHANGED <<reloj, almacen, entrada, sombra, perfil, concurrencia>>

ObtenerDatos ==
    /\ entrada # None
    /\ retorno' = [op |-> "obtener_datos", clave |-> None,
                   valor |-> obtener_datos(entrada, reloj)]
    /\ UNCHANGED <<reloj, almacen, entrada, sombra, perfil, concurrencia>>

----------------------------------------------------------------------------
(* Calls by several threads.  A call waits for self._lock, runs its body   *)
(* holding it and releases it on return.  The body of a call reads the     *)
(* store and then writes what it changes; the body of invalidar_todo_cache *)
(* is its four statements, one region each.  A put validates its argument  *)
(* before it takes the lock.                                               *)

Hilos == {1, 2}

\* a call: the method, its key argument and its value argument
Llamar(nombre, clave, valor) == [nombre |-> nombre, clave |-> clave, valor |-> valor]

\* a store at the threshold of the automatic sweep: as many lists of ids,
\* stored at time 0, as the sweep tolerates
AlmacenLleno ==
    [AlmacenVacio EXCEPT !.cache_ids_departamento =
        [i \in 1 .. UMBRAL_LIMPIEZA |->
            [clave |-> UMBRAL_LIMPIEZA + i,
             entrada |-> EntradaCache(Lista(<< >>), TIEMPO_VIDA_LISTAS_IDS, 0)]]]

\* a predicate passed to buscar_obras_por_criterio: one that answers (it
\* holds for the works of obras), one that raises, or one that calls
\* obtener_obra on the store it is scanning
CriterioDe(clase, obras) == [tipo |-> "function", clase |-> clase, obras |-> obras]

\* what the raising predicate raises
ErrorDelCriterio == [tipo |-> "RuntimeError"]

\* the outcome of a call that never returns
Bloqueada == [tipo |-> "bloqueada"]

\* the calls the threads make: on a store that starts empty, and on one
\* that starts at the threshold of the sweep; or the four puts, each with
\* a value of its type and with one that is not; or calls that end in each
\* of the ways a call can end; or a scan with a predicate that calls the store
LlamadasHilos(p) ==
    IF p = "hilos_justo"
    THEN {Llamar("obtener_obra", Entero(1), None),
          Llamar("almacenar_obra", None, ObraArte(1, "Paintings")),
          Llamar("almacenar_obra", None, NoEsObra),
          Llamar("buscar_obras_por_criterio", None, CriterioDe("responde", Obras)),
          Llamar("buscar_obras_por_criterio", None, CriterioDe("lanza", {})),
          Llamar("limpiar_cache_manual", None, None),
          Llamar("invalidar_todo_cache", None, None)}
    ELSE IF p = "hilos_justo_lleno"
    THEN {Llamar("obtener_obra", Entero(1), None),
          Llamar("almacenar_obra", None, ObraArte(1, "Paintings"))}
    ELSE IF p = "hilos_reentrante"
    THEN {Llamar("obtener_obra", Entero(1), None),
          Llamar("almacenar_obra", None, ObraArte(1, "Paintings")),
          Llamar("buscar_obras_por_criterio", None, CriterioDe("reentrante", {})),
          Llamar("invalidar_todo_cache", None, None)}
    ELSE IF p = "hilos_puts"
    THEN {Llamar("almacenar_obra", None, ObraArte(1, "Paintings")),
          Llamar("almacenar_obra", None, NoEsObra),
          Llamar("almacenar_departamentos", None,
                 Lista(<<Departamento(1, "European Paintings")>>)),
          Llamar("almacenar_departamentos", None, NoEsLista),
          Llamar("almacenar_resultado_busqueda", Str("nacionalidad:french"),
                 Lista(<<1>>)),
          Llamar("almacenar_resultado_busqueda", Str("nacionalidad:french"),
                 NoEsLista),
          Llamar("almacenar_ids_departamento", Entero(1), Lista(<<1>>)),
          Llamar("almacenar_ids_departamento", Entero(1), NoEsLista)}
    ELSE IF p = "hilos"
    THEN {Llamar("obtener_obra", Entero(1), None),
          Llamar("almacenar_obra", None, ObraArte(1, "Paintings")),
          Llamar("almacenar_obra", None, NoEsObra),
          Llamar("obtener_ids_departamento", Entero(1), None),
          Llamar("almacenar_ids_departamento", Entero(1), Lista(<<1>>)),
          Llamar("invalidar_cache_obras", None, None),
          Llamar("invalidar_todo_cache", None, None)}
    ELSE {Llamar("obtener_obra", Entero(1), None),
          Llamar("almacenar_obra", None, ObraArte(1, "Paintings")),
          Llamar("almacenar_ids_departamento", Entero(1), Lista(<<1>>))}

\* the scan of buscar_obras_por_criterio calls the predicate: some work of
\* the store is still valid
SeLlamaAlCriterio(a, ahora) ==
    \E i \in DOMAIN a.cache_obras :
        obtener_datos(a.cache_obras[i].entrada, ahora) # None

\* buscar_obras_por_criterio with a predicate of each kind: the exception of
\* the predicate leaves the with block and the method
buscar_obras_con(a, criterio, ahora) ==
    IF criterio.clase = "responde"
    THEN buscar_obras_por_criterio(a, criterio.obras, ahora)
    ELSE IF ~SeLlamaAlCriterio(a, ahora)
    THEN Resultado(a, Lista(<< >>))
    ELSE IF criterio.clase = "lanza"
    THEN Resultado(a, ErrorDelCriterio)
    ELSE Resultado(a, Bloqueada)

\* the call ll on store a at time ahora, run from start to end
Ejecutar(a, ll, ahora) ==
    CASE ll.nombre = "obtener_obra" -> obtener_obra(a, ll.clave.n, ahora)
      [] ll.nombre = "buscar_obras_por_criterio"
            -> buscar_obras_con(a, ll.valor, ahora)
      [] ll.nombre = "almacenar_obra" -> almacenar_obra(a, ll.valor, ahora)
      [] ll.nombre = "obtener_ids_departamento"
            -> obtener_ids_departamento(a, ll.clave.n, ahora)
      [] ll.nombre = "almacenar_ids_departamento"
            -> almacenar_ids_departamento(a, ll.clave.n, ll.valor, ahora)
      [] ll.nombre = "almacenar_departamentos"
            -> almacenar_departamentos(a, ll.valor, ahora)
      [] ll.nombre = "almacenar_resultado_busqueda"
            -> almacenar_resultado_busqueda(a, ll.clave.texto, ll.valor, ahora)
      [] ll.nombre = "invalidar_cache_obras" -> invalidar_cache_obras(a)
      [] ll.nombre = "invalidar_todo_cache" -> invalidar_todo_cache(a)
      [] ll.nombre = "limpiar_cache_manual" -> limpiar_cache_manual(a, ahora)

\* the isinstance check of the puts, made before the lock is taken: the
\* only place where a method raises ValueError
ArgumentoValido(ll) == Ejecutar(almacen, ll, reloj).ret # ValueError

\* a thread outside any call, having made n calls, c of them calls of
\* obtener_obra that returned (esperado and consultas are not program state:
\* what the call returns had the calls run one at a time, and c)
Ocioso(n, c) ==
    [pc |-> "ocioso", llamada |-> None, visto |-> None, ret |-> None,
     esperado |-> None, llamadas |-> n, consultas |-> c]

\* the store with the attributes the body assigned: those that differ
\* between what the body read (visto) and what it computed (nuevo)
Grabar(actual, visto, nuevo) ==
    [f \in DOMAIN actual |-> IF nuevo[f] = visto[f] THEN actual[f] ELSE nuevo[f]]

LlamadasHechas == hilos[1].llamadas + hilos[2].llamadas

\* the cap on the calls of the threads in profile p
MaxLlamadasDe(p) ==
    IF p = "hilos" THEN MaxLlamadas
    ELSE IF p = "hilos_justo" THEN MaxLlamadasJusto
    ELSE IF p = "hilos_justo_lleno" THEN MaxLlamadasJustoLleno
    ELSE IF p = "hilos_reentrante" THEN MaxLlamadasReentrante
    ELSE MaxLlamadasLleno

\* thread h calls a method; a put with an argument of the wrong type
\* raises ValueError at once
Invocar(h, ll) ==
    /\ hilos[h].pc = "ocioso"
    /\ LlamadasHechas < MaxLlamadasDe(perfil)
    /\ IF ArgumentoValido(ll)
       THEN /\ hilos' = [hilos EXCEPT ![h].pc = "esperando", ![h].llamada = ll,
                                       ![h].llamadas = @ + 1]
            /\ UNCHANGED retorno
       ELSE /\ hilos' = [hilos EXCEPT ![h].llamadas = @ + 1]
            /\ retorno' = [op |-> ll.nombre, clave |-> None, valor |-> ValueError]
    /\ UNCHANGED <<reloj, almacen, entrada, sombra, perfil, candado, almacen_sec>>

\* a lock that anybody can take at any time
LockLibreSiempre == TRUE

\* self._lock is free: threading.Lock is not reentrant
LockLibre == candado = 0

\* only the methods that write take the lock
UsaCandadoSoloEscrituras(ll) ==
    ll.nombre \notin {"obtener_obra", "obtener_ids_departamento"}

\* the method of call ll runs its body inside "with self._lock": all do
UsaCandado(ll) == TRUE

\* the lock as an RLock: the thread that holds it enters again
Adquirir_reentrante(h) ==
    /\ hilos[h].pc \in {"esperando", "reentrando"}
    /\ candado \in {0, h}
    /\ candado' = h
    /\ hilos' = [hilos EXCEPT ![h].pc =
                    IF hilos[h].pc = "reentrando" THEN "anidada"
                    ELSE IF hilos[h].llamada.nombre = "invalidar_todo_cache"
                    THEN "limpiar_obras" ELSE "leer"]
    /\ UNCHANGED <<reloj, almacen, retorno, entrada, sombra, perfil, almacen_sec>>

\* with self._lock: thread h enters when the lock is free, be it at the
\* start of its call or in the call its predicate makes from inside the scan
Adquirir(h) ==
    /\ hilos[h].pc \in {"esperando", "reentrando"}
    /\ UsaCandado(hilos[h].llamada) => LockLibre
    /\ candado' = IF UsaCandado(hilos[h].llamada) THEN h ELSE candado
    /\ hilos' = [hilos EXCEPT ![h].pc =
                    IF hilos[h].pc = "reentrando" THEN "anidada"
                    ELSE IF hilos[h].llamada.nombre = "invalidar_todo_cache"
                    THEN "limpiar_obras" ELSE "leer"]
    /\ UNCHANGED <<reloj, almacen, retorno, entrada, sombra, perfil, almacen_sec>>

\* the body reads the attributes of the store
Leer(h) ==
    /\ hilos[h].pc = "leer"
    /\ hilos' = [hilos EXCEPT ![h].pc = "escribir", ![h].visto = almacen]
    /\ UNCHANGED <<reloj, almacen, retorno, entrada, sombra, perfil, candado,
                   almacen_sec>>

\* the body of thread h is a scan whose predicate calls the store
Reentra(h) ==
    /\ hilos[h].llamada.nombre = "buscar_obras_por_criterio"
    /\ hilos[h].llamada.valor.clase = "reentrante"
    /\ SeLlamaAlCriterio(hilos[h].visto, reloj)

\* the scan calls the predicate, which calls obtener_obra: the thread waits
\* for the lock again, holding it
EntrarEnCriterio(h) ==
    /\ hilos[h].pc = "escribir"
    /\ Reentra(h)
    /\ hilos' = [hilos EXCEPT ![h].pc = "reentrando"]
    /\ UNCHANGED <<reloj, almacen, retorno, entrada, sombra, perfil, candado,
                   almacen_sec>>

\* the body assigns what it changes and has its return value
Escribir(h) ==
    /\ hilos[h].pc = "escribir"
    /\ ~Reentra(h)
    /\ LET r == Ejecutar(hilos[h].visto, hilos[h].llamada, reloj)
           sec == Ejecutar(almacen_sec, hilos[h].llamada, reloj)
       IN  /\ almacen' = Grabar(almacen, hilos[h].visto, r.alm)
           /\ almacen_sec' = sec.alm
           /\ hilos' = [hilos EXCEPT ![h].pc = "liberar", ![h].visto = None,
                                     ![h].ret = r.ret, ![h].esperado = sec.ret]
    /\ UNCHANGED <<reloj, retorno, entrada, sombra, perfil, candado>>

\* invalidar_todo_cache: self._cache_obras.clear()
LimpiarObras(h) ==
    /\ hilos[h].pc = "limpiar_obras"
    /\ almacen' = [almacen EXCEPT !.cache_obras = << >>]
    /\ hilos' = [hilos EXCEPT ![h].pc = "limpiar_departamentos"]
    /\ UNCHANGED <<reloj, retorno, entrada, sombra, perfil, candado, almacen_sec>>

\* invalidar_todo_cache: self._cache_departamentos = None
LimpiarDepartamentos(h) ==
    /\ hilos[h].pc = "limpiar_departamentos"
    /\ almacen' = [almacen EXCEPT !.cache_departamentos = None]
    /\ hilos' = [hilos EXCEPT ![h].pc = "limpiar_busquedas"]
    /\ UNCHANGED <<reloj, retorno, entrada, sombra, perfil, candado, almacen_sec>>

\* invalidar_todo_cache: self._cache_busquedas.clear()
LimpiarBusquedas(h) ==
    /\ hilos[h].pc = "limpiar_busquedas"
    /\ almacen' = [almacen EXCEPT !.cache_busquedas = << >>]
    /\ hilos' = [hilos EXCEPT ![h].pc = "limpiar_ids_departamento"]
    /\ UNCHANGED <<reloj, retorno, entrada, sombra, perfil, candado, almacen_sec>>

\* invalidar_todo_cache: self._cache_ids_departamento.clear()
LimpiarIdsDepartamento(h) ==
    /\ hilos[h].pc = "limpiar_ids_departamento"
    /\ almacen' = [almacen EXCEPT !.cache_ids_departamento = << >>]
    /\ almacen_sec' = invalidar_todo_cache(almacen_sec).alm
    /\ hilos' = [hilos EXCEPT ![h].pc = "liberar"]
    /\ UNCHANGED <<reloj, retorno, entrada, sombra, perfil, candado>>

\* an end of the with block that keeps the lock
Liberar_sin_soltar(h) ==
    /\ hilos[h].pc = "liberar"
    /\ retorno' = [op |-> hilos[h].llamada.nombre, clave |-> hilos[h].llamada.clave,
                   valor |-> hilos[h].ret]
    /\ hilos' = [hilos EXCEPT ![h] =
                    Ocioso(hilos[h].llamadas,
                           IF hilos[h].llamada.nombre = "obtener_obra"
                           THEN hilos[h].consultas + 1 ELSE hilos[h].consultas)]
    /\ UNCHANGED <<reloj, almacen, entrada, sombra, perfil, candado, almacen_sec>>

\* the end of the with block: the lock is released and the call returns
Liberar(h) ==
    /\ hilos[h].pc = "liberar"
    /\ candado' = IF UsaCandado(hilos[h].llamada) THEN 0 ELSE candado
    /\ retorno' = [op |-> hilos[h].llamada.nombre, clave |-> hilos[h].llamada.clave,
                   valor |-> hilos[h].ret]
    /\ hilos' = [hilos EXCEPT ![h] =
                    Ocioso(hilos[h].llamadas,
                           IF hilos[h].llamada.nombre = "obtener_obra"
                           THEN hilos[h].consultas + 1 ELSE hilos[h].consultas)]
    /\ UNCHANGED <<reloj, almacen, entrada, sombra, perfil, almacen_sec>>

InitHilos ==
    /\ perfil \in {"hilos", "hilos_lleno", "hilos_puts"}
    /\ reloj = 0
    /\ almacen = IF perfil = "hilos_lleno" THEN AlmacenLleno ELSE AlmacenVacio
    /\ retorno = [op |-> "__init__", clave |-> None, valor |-> None]
    /\ entrada = None
    /\ sombra = None
    /\ hilos = [h \in Hilos |-> Ocioso(0, 0)]
    /\ candado = 0
    /\ almacen_sec = almacen

NextHilos ==
    \/ \E h \in Hilos, ll \in LlamadasHilos(perfil) : Invocar(h, ll)
    \/ \E h \in Hilos : Adquirir(h)
    \/ \E h \in Hilos : Leer(h)
    \/ \E h \in Hilos : Escribir(h)
    \/ \E h \in Hilos : LimpiarObras(h)
    \/ \E h \in Hilos : LimpiarDepartamentos(h)
    \/ \E h \in Hilos : LimpiarBusquedas(h)
    \/ \E h \in Hilos : LimpiarIdsDepartamento(h)
    \/ \E h \in Hilos : Liberar(h)
    \/ Avanzar

SpecHilos == InitHilos /\ [][NextHilos]_vars

\* two threads whose calls end in each of the ways a call can end, or whose
\* puts find the store at the threshold of the sweep, scheduled fairly: a
\* thread that can take a step of its body takes it, and a thread that finds
\* the lock free again and again gets it
InitJusto ==
    /\ perfil \in {"hilos_justo", "hilos_justo_lleno"}
    /\ reloj = 0
    /\ almacen = IF perfil = "hilos_justo_lleno" THEN AlmacenLleno ELSE AlmacenVacio
    /\ retorno = [op |-> "__init__", clave |-> None, valor |-> None]
    /\ entrada = None
    /\ sombra = None
    /\ hilos = [h \in Hilos |-> Ocioso(0, 0)]
    /\ candado = 0
    /\ almacen_sec = almacen

Cuerpo(h) ==
    \/ Leer(h)
    \/ Escribir(h)
    \/ LimpiarObras(h)
    \/ LimpiarDepartamentos(h)
    \/ LimpiarBusquedas(h)
    \/ LimpiarIdsDepartamento(h)
    \/ Liberar(h)

SpecJusto ==
    /\ InitJusto
    /\ [][NextHilos]_vars
    /\ \A h \in Hilos : WF_vars(Cuerpo(h)) /\ SF_vars(Adquirir(h))

\* two threads, one of which may scan with a predicate that calls the store
InitReentrante ==
    /\ perfil = "hilos_reentrante"
    /\ reloj = 0
    /\ almacen = AlmacenVacio
    /\ retorno = [op |-> "__init__", clave |-> None, valor |-> None]
    /\ entrada = None
    /\ sombra = None
    /\ hilos = [h \in Hilos |-> Ocioso(0, 0)]
    /\ candado = 0
    /\ almacen_sec = almacen

NextReentrante ==
    \/ NextHilos
    \/ \E h \in Hilos : EntrarEnCriterio(h)

SpecReentrante == InitReentrante /\ [][NextReentrante]_vars

----------------------------------------------------------------------------
(* ServicioObras.obtener_detalles_obra: the cache first, the remote API on *)
(* a miss, the work built from its answer stored for the next lookups.     *)

ErrorConexionAPI == [tipo |-> "ErrorConexionAPI"]
ErrorDatosIncompletos == [tipo |-> "ErrorDatosIncompletos"]

\* the dict the API answers for a work, with the fields the service reads
DatosObra(objectID, title, classification) ==
    [tipo |-> "dict", objectID |-> objectID, title |-> title,
     classification |-> classification]

\* what ClienteAPIMetMuseum.obtener_detalles_obra(id_obra) may answer:
\* the work, a work without title, or a connection error
RespuestasDetallesObra(id_obra) ==
    {DatosObra(id_obra, Str("Wheat Field"), "Paintings"),
     DatosObra(id_obra, None, "Paintings"),
     ErrorConexionAPI}

\* objectID is an integer in every answer of the model; title may be None
validar_datos_obra(datos) ==
    /\ isinstance(datos, "dict")
    /\ datos.title # None
    /\ datos.title.texto # ""
    /\ datos.objectID > 0

convertir_datos_api_a_obra(datos_api) ==
    ObraArte(datos_api.objectID, datos_api.classification)

\* the store after the lookup, what the lookup returned or raised, and
\* whether it called the remote API
ResultadoServicio(a, r, api) == [alm |-> a, ret |-> r, api |-> api]

\* obtener_detalles_obra that stores the record before it validates it
obtener_detalles_obra_guarda_antes(a, id_obra, respuesta, ahora) ==
    IF id_obra <= 0
    THEN ResultadoServicio(a, ValueError, FALSE)
    ELSE LET r == obtener_obra(a, id_obra, ahora)
         IN  IF r.ret # None
             THEN ResultadoServicio(r.alm, r.ret, FALSE)
             ELSE IF ~isinstance(respuesta, "dict")
             THEN ResultadoServicio(r.alm, respuesta, TRUE)
             ELSE LET obra == convertir_datos_api_a_obra(respuesta)
                      guardada == almacenar_obra(r.alm, obra, ahora).alm
                  IN  IF ~validar_datos_obra(respuesta)
                      THEN ResultadoServicio(guardada, ErrorDatosIncompletos, TRUE)
                      ELSE ResultadoServicio(guardada, obra, TRUE)

obtener_detalles_obra(a, id_obra, respuesta, ahora) ==
    IF id_obra <= 0
    THEN ResultadoServicio(a, ValueError, FALSE)
    ELSE LET r == obtener_obra(a, id_obra, ahora)
         IN  IF r.ret # None
             THEN ResultadoServicio(r.alm, r.ret, FALSE)
             ELSE IF ~isinstance(respuesta, "dict")
             THEN ResultadoServicio(r.alm, respuesta, TRUE)
             ELSE IF ~validar_datos_obra(respuesta)
             THEN ResultadoServicio(r.alm, ErrorDatosIncompletos, TRUE)
             ELSE LET obra == convertir_datos_api_a_obra(respuesta)
                  IN  ResultadoServicio(almacenar_obra(r.alm, obra, ahora).alm,
                                        obra, TRUE)

ObtenerDetallesObra(id_obra, respuesta) ==
    /\ LET r == obtener_detalles_obra(almacen, id_obra, respuesta, reloj)
       IN  /\ almacen' = r.alm
           /\ retorno' = [op |-> "obtener_detalles_obra", clave |-> Entero(id_obra),
                          valor |-> r.ret, api |-> r.api]
           /\ sombra' = IF isinstance(r.ret, "ObraArte") /\ r.api
                        THEN SombraPoner(sombra, "obras", id_obra, r.ret, reloj)
                        ELSE sombra
    /\ UNCHANGED <<reloj, entrada, perfil, concurrencia>>

----------------------------------------------------------------------------

Init ==
    /\ perfil \in Perfiles
    /\ reloj = 0
    /\ almacen = AlmacenVacio
    /\ retorno = [op |-> "__init__", clave |-> None, valor |-> None]
    /\ entrada = None
    /\ sombra = IF perfil \in Regiones \cup {"servicio"} THEN SombraInicial ELSE None
    /\ hilos = [h \in Hilos |-> Ocioso(0, 0)]
    /\ candado = 0
    /\ almacen_sec = AlmacenVacio

PuedeConsultar == Consultas(almacen) < MaxConsultasDe(perfil)

Next ==
    \/ PuedeConsultar /\ \E id_obra \in IdsObraDe(perfil) : ObtenerObra(id_obra)
    \/ \E obra \in ObrasDe(perfil) : AlmacenarObra(obra)
    \/ PuedeConsultar /\ DepartamentosDe(perfil) # {} /\ ObtenerDepartamentos
    \/ \E l \in DepartamentosDe(perfil) : AlmacenarDepartamentos(l)
    \/ PuedeConsultar /\ BusquedasDe(perfil) # {}
         /\ \E k \in ClavesBusqueda : ObtenerResultadoBusqueda(k)
    \/ \E k \in ClavesBusqueda, l \in BusquedasDe(perfil) :
            AlmacenarResultadoBusqueda(k, l)
    \/ ListasIdsDe(perfil) # {}
         /\ \E d \in IdsDepartamentoDe(perfil) : ObtenerIdsDepartamento(d)
    \/ \E d \in IdsDepartamentoDe(perfil), l \in ListasIdsDe(perfil) :
            AlmacenarIdsDepartamento(d, l)
    \/ ObrasDe(perfil) # {} /\ \E c \in Criterios : BuscarObrasPorCriterio(c)
    \/ ObrasDe(perfil) # {} /\ InvalidarCacheObras
    \/ DepartamentosDe(perfil) # {} /\ InvalidarCacheDepartamentos
    \/ BusquedasDe(perfil) # {} /\ InvalidarCacheBusquedas
    \/ perfil # "entrada" /\ InvalidarTodoCache
    \/ perfil # "entrada" /\ LimpiarCacheManual
    \/ perfil \notin {"entrada", "servicio"} /\ ObtenerEstadisticasCache
    \/ perfil = "entrada"
         /\ \E d \in DatosDePrueba, T \in 1 .. MaxTiempoVida : CrearEntrada(d, T)
    \/ perfil = "entrada" /\ EsValida
    \/ perfil = "entrada" /\ ObtenerDatos
    \/ perfil = "servicio" /\ PuedeConsultar
         /\ \E id_obra \in IdsObra :
              \E respuesta \in RespuestasDetallesObra(id_obra) :
                 ObtenerDetallesObra(id_obra, respuesta)
    \/ Avanzar

Spec == Init /\ [][Next]_vars

----------------------------------------------------------------------------
(* A single caller on a store that starts one entry below the threshold of *)
(* the automatic sweep.                                                    *)

\* the store after UMBRAL_LIMPIEZA - 1 calls of almacenar_ids_departamento
\* at time 0 (which never run the sweep), each with a department of its own
AlmacenCasiLleno ==
    [AlmacenVacio EXCEPT !.cache_ids_departamento =
        [i \in 1 .. (UMBRAL_LIMPIEZA - 1) |->
            [clave |-> UMBRAL_LIMPIEZA + i,
             entrada |-> EntradaCache(Lista(<< >>), TIEMPO_VIDA_LISTAS_IDS, 0)]]]

InitLleno ==
    /\ perfil = "lleno"
    /\ reloj = 0
    /\ almacen = AlmacenCasiLleno
    /\ retorno = [op |-> "__init__", clave |-> None, valor |-> None]
    /\ entrada = None
    /\ sombra = None
    /\ hilos = [h \in Hilos |-> Ocioso(0, 0)]
    /\ candado = 0
    /\ almacen_sec = AlmacenVacio

PuedeLimpiar == almacen.estadisticas.limpiezas_automaticas < MaxLimpiezas

NextLleno ==
    \/ PuedeLimpiar /\ \E obra \in ObrasDe(perfil) : AlmacenarObra(obra)
    \/ PuedeLimpiar
         /\ \E k \in ClavesBusqueda, l \in BusquedasDe(perfil) :
                AlmacenarResultadoBusqueda(k, l)
    \/ \E d \in IdsDepartamento, l \in ListasIdsDe(perfil) :
            AlmacenarIdsDepartamento(d, l)
    \/ \E l \in DepartamentosDe(perfil) : AlmacenarDepartamentos(l)
    \/ \E d \in IdsDepartamento : ObtenerIdsDepartamento(d)
    \/ Avanzar

SpecLleno == InitLleno /\ [][NextLleno]_vars

\* a single caller that uses one region of a store that starts empty, or a
\* store that starts one entry below the threshold; on the latter it also
\* looks works up and invalidates
InitContadores ==
    \/ Init /\ perfil # "conjunto"
    \/ InitLleno

NextContadores ==
    \/ perfil # "lleno" /\ Next
    \/ perfil = "lleno" /\ NextLleno
    \/ perfil = "lleno" /\ Consultas(almacen) < MaxConsultasConjunto
         /\ \E id_obra \in {1} : ObtenerObra(id_obra)
    \/ perfil = "lleno" /\ InvalidarTodoCache

SpecContadores == InitContadores /\ [][NextContadores]_vars

----------------------------------------------------------------------------
(* ServicioBusqueda: the searches by department, by nationality and by     *)
(* artist and the list of departments, each with the cache first and the   *)
(* remote API on a miss.                                                   *)

ErrorRecursoNoEncontrado == [tipo |-> "ErrorRecursoNoEncontrado"]
ErrorDepartamentoInvalido == [tipo |-> "ErrorDepartamentoInvalido"]
ErrorNacionalidadInvalida == [tipo |-> "ErrorNacionalidadInvalida"]
ErrorServicioBusqueda == [tipo |-> "ErrorServicioBusqueda"]
ErrorConversionDatos == [tipo |-> "ErrorConversionDatos"]

\* the exceptions of ExcepcionesAPIMetMuseum
ErroresAPI == {ErrorConexionAPI, ErrorDatosIncompletos, ErrorRecursoNoEncontrado}

\* str.lower(), str.strip() and "x in y" on the strings of the model
Minusculas(s) ==
    CASE s = "French" -> "french"
      [] s = "Dutch" -> "dutch"
      [] s = "Monet" -> "monet"
      [] s = "Claude Monet" -> "claude monet"
      [] s = "Vincent van Gogh" -> "vincent van gogh"
      [] s = "European Paintings" -> "european paintings"
      [] s = "Asian Art" -> "asian art"
      [] OTHER -> s

Recortar(s) ==
    CASE s = "   " -> ""
      [] s = " French " -> "French"
      [] OTHER -> s

EstaEn(x, y) ==
    \/ x = ""
    \/ x = y
    \/ <<x, y>> \in {<<"monet", "claude monet">>, <<"gogh", "vincent van gogh">>}

Artista(nombre, nacionalidad) ==
    [tipo |-> "Artista", nombre |-> nombre, nacionalidad |-> nacionalidad]

\* an ObraArte with the artist the searches filter by
ObraArteDe(id_obra, clasificacion, artista) ==
    [tipo |-> "ObraArte", id_obra |-> id_obra, clasificacion |-> clasificacion,
     artista |-> artista]

\* the dict the API answers for a work, with the fields the searches read
DatosObraArtista(objectID, title, nombre, nacionalidad, classification) ==
    [tipo |-> "dict", objectID |-> objectID, title |-> title,
     artistDisplayName |-> nombre, artistNationality |-> nacionalidad,
     classification |-> classification]

\* datos_api.get(campo)
Campo(datos_api, campo) ==
    IF campo \in DOMAIN datos_api THEN datos_api[campo] ELSE None

\* the works of the museum behind the remote API
DatosDelMuseo(id_obra) ==
    IF id_obra = 1
    THEN DatosObraArtista(1, Str("Water Lilies"), Str("Claude Monet"),
                          Str("French"), "Paintings")
    ELSE DatosObraArtista(id_obra, Str("Wheat Field"), Str("Vincent van Gogh"),
                          Str("Dutch"), "Paintings")

\* what ClienteAPIMetMuseum.obtener_detalles_obra(id_obra) may answer to a
\* search: the work, the work with a blank title, or a connection error
RespuestasObra(id_obra) ==
    {DatosDelMuseo(id_obra),
     [DatosDelMuseo(id_obra) EXCEPT !.title = Str("   ")],
     ErrorConexionAPI}

\* one answer of the API for each work it may be asked for
RespuestasObras ==
    {f \in [IdsObra -> UNION {RespuestasObra(i) : i \in IdsObra}] :
        \A i \in IdsObra : f[i] \in RespuestasObra(i)}

\* what obtener_obras_por_departamento and buscar_obras_por_query may answer
RespuestasIds ==
    {Lista(<< >>), Lista(<<1, 2>>), ErrorConexionAPI, ErrorRecursoNoEncontrado}

\* what ClienteAPIMetMuseum.obtener_departamentos may answer
RespuestasDepartamentos ==
    {Lista(<< >>),
     Lista(<<Departamento(1, "European Paintings"), Departamento(2, "Asian Art")>>),
     ErrorConexionAPI}

\* ServicioBusqueda._convertir_datos_api_a_obra: the title defaults when it
\* is empty, ObraArte refuses an id that is not positive and a blank title
convertir_datos_api_a_obra_busqueda(datos_api) ==
    IF "objectID" \notin DOMAIN datos_api \/ "title" \notin DOMAIN datos_api
    THEN ErrorConversionDatos
    ELSE LET titulo == IF datos_api.title = None \/ datos_api.title.texto = ""
                       THEN "Título desconocido"
                       ELSE datos_api.title.texto
             nombre == IF Campo(datos_api, "artistDisplayName") = None
                       THEN "Artista desconocido"
                       ELSE datos_api.artistDisplayName.texto
             nacionalidad == IF Campo(datos_api, "artistNationality") = None
                             THEN None
                             ELSE datos_api.artistNationality
         IN  IF datos_api.objectID <= 0 \/ Recortar(titulo) = ""
             THEN ErrorConversionDatos
             ELSE ObraArteDe(datos_api.objectID,
                             Campo(datos_api, "classification"),
                             Artista(nombre, nacionalidad))

\* ids_obras[:n]
Primeros(ids, n) == SubSeq(ids, 1, IF Len(ids) < n THEN Len(ids) ELSE n)

LIMITE_DEPARTAMENTO == 20
LIMITE_NACIONALIDAD == 30
LIMITE_ARTISTA == 25

\* the store after a search, what it returned or raised, how many calls it
\* made to the remote API and how many works it gave up
ResultadoBusqueda(a, r, api, errores) ==
    [alm |-> a, ret |-> r, api |-> api, errores |-> errores]

\* the loop over the ids of a search without the write-back of the works
\* it fetched
RECURSIVE cargar_obras_sin_guardar(_, _, _, _)
cargar_obras_sin_guardar(a, ids, respuestas, ahora) ==
    IF ids = << >>
    THEN ResultadoBusqueda(a, << >>, 0, 0)
    ELSE LET r == obtener_obra(a, Head(ids), ahora)
             datos == respuestas[Head(ids)]
             nueva == IF isinstance(datos, "dict")
                      THEN convertir_datos_api_a_obra_busqueda(datos)
                      ELSE datos
             paso == IF r.ret # None
                     THEN ResultadoBusqueda(r.alm, <<r.ret>>, 0, 0)
                     ELSE IF ~isinstance(nueva, "ObraArte")
                     THEN ResultadoBusqueda(r.alm, << >>, 1, 1)
                     ELSE ResultadoBusqueda(r.alm, <<nueva>>, 1, 0)
             resto == cargar_obras_sin_guardar(paso.alm, Tail(ids), respuestas, ahora)
         IN  ResultadoBusqueda(resto.alm, paso.ret \o resto.ret,
                               paso.api + resto.api,
                               paso.errores + resto.errores)

\* the loop over the ids of a search: each work from the cache, or else
\* from the remote API, converted and stored; a work that fails is skipped
RECURSIVE cargar_obras(_, _, _, _)
cargar_obras(a, ids, respuestas, ahora) ==
    IF ids = << >>
    THEN ResultadoBusqueda(a, << >>, 0, 0)
    ELSE LET r == obtener_obra(a, Head(ids), ahora)
             datos == respuestas[Head(ids)]
             nueva == IF isinstance(datos, "dict")
                      THEN convertir_datos_api_a_obra_busqueda(datos)
                      ELSE datos
             paso == IF r.ret # None
                     THEN ResultadoBusqueda(r.alm, <<r.ret>>, 0, 0)
                     ELSE IF ~isinstance(nueva, "ObraArte")
                     THEN ResultadoBusqueda(r.alm, << >>, 1, 1)
                     ELSE ResultadoBusqueda(
                            almacenar_obra(r.alm, nueva, ahora).alm, <<nueva>>, 1, 0)
             resto == cargar_obras(paso.alm, Tail(ids), respuestas, ahora)
         IN  ResultadoBusqueda(resto.alm, paso.ret \o resto.ret,
                               paso.api + resto.api,
                               paso.errores + resto.errores)

buscar_por_departamento(a, id_departamento, respuesta_ids, respuestas, ahora) ==
    IF id_departamento <= 0
    THEN ResultadoBusqueda(a, ErrorDepartamentoInvalido, 0, 0)
    ELSE LET r == obtener_ids_departamento(a, id_departamento, ahora)
             falta == r.ret = None
         IN  IF falta /\ respuesta_ids = ErrorRecursoNoEncontrado
             THEN ResultadoBusqueda(r.alm, ErrorDepartamentoInvalido, 1, 0)
             ELSE IF falta /\ respuesta_ids \in ErroresAPI
             THEN ResultadoBusqueda(r.alm, ErrorServicioBusqueda, 1, 0)
             ELSE LET ids_obras == IF falta THEN respuesta_ids ELSE r.ret
                      a1 == IF falta
                            THEN almacenar_ids_departamento(
                                    r.alm, id_departamento, ids_obras, ahora).alm
                            ELSE r.alm
                      api == IF falta THEN 1 ELSE 0
                      ids_limitados == Primeros(ids_obras.elems, LIMITE_DEPARTAMENTO)
                      c == cargar_obras(a1, ids_limitados, respuestas, ahora)
                  IN  IF ids_obras.elems = << >>
                      THEN ResultadoBusqueda(a1, Lista(<< >>), api, 0)
                      ELSE IF 2 * c.errores > Len(ids_limitados)
                      THEN ResultadoBusqueda(c.alm, ErrorConversionDatos,
                                             api + c.api, c.errores)
                      ELSE ResultadoBusqueda(c.alm, Lista(c.ret),
                                             api + c.api, c.errores)

\* the names of the departments in the order of sorted(..., key=nombre.lower())
RangoDeNombre(nombre) ==
    CASE Minusculas(nombre) = "asian art" -> 1
      [] Minusculas(nombre) = "european paintings" -> 2
      [] OTHER -> 3

\* sorted(departamentos, key=lambda d: d.nombre.lower())
RECURSIVE Ordenados(_)
Ordenados(l) ==
    IF l = << >> THEN << >>
    ELSE LET resto == Ordenados(Tail(l))
             antes == SelectSeq(resto, LAMBDA d :
                        RangoDeNombre(d.nombre) < RangoDeNombre(Head(l).nombre))
             despues == SelectSeq(resto, LAMBDA d :
                        RangoDeNombre(d.nombre) >= RangoDeNombre(Head(l).nombre))
         IN  antes \o <<Head(l)>> \o despues

obtener_departamentos_disponibles(a, respuesta, ahora) ==
    LET r == obtener_departamentos(a, ahora)
    IN  IF r.ret # None
        THEN ResultadoBusqueda(r.alm, Lista(Ordenados(r.ret.elems)), 0, 0)
        ELSE IF respuesta \in ErroresAPI
        THEN ResultadoBusqueda(r.alm, ErrorServicioBusqueda, 1, 0)
        ELSE ResultadoBusqueda(
                almacenar_departamentos(r.alm, respuesta, ahora).alm,
                Lista(Ordenados(respuesta.elems)), 1, 0)

\* the nationalities GestorNacionalidades has loaded
NacionalidadesDisponibles == {"French", "Dutch"}

\* GestorNacionalidades.validar_nacionalidad
validar_nacionalidad(nacionalidad) ==
    /\ nacionalidad # ""
    /\ \E nac \in NacionalidadesDisponibles :
         Minusculas(nac) = Minusculas(Recortar(nacionalidad))

\* a search by text: the ids from the searches region under clave_busqueda or
\* from buscar_obras_por_query, then the works; each search keeps of them
\* those that pass its filter
buscar_por_query(a, clave_busqueda, limite, respuesta_ids, respuestas, ahora) ==
    LET r == obtener_resultado_busqueda(a, clave_busqueda, ahora)
        falta == r.ret = None
    IN  IF falta /\ respuesta_ids \in ErroresAPI
        THEN ResultadoBusqueda(r.alm, ErrorServicioBusqueda, 1, 0)
        ELSE LET ids_obras == IF falta THEN respuesta_ids ELSE r.ret
                 a1 == IF falta
                       THEN almacenar_resultado_busqueda(
                                r.alm, clave_busqueda, ids_obras, ahora).alm
                       ELSE r.alm
                 api == IF falta THEN 1 ELSE 0
                 c == cargar_obras(a1, Primeros(ids_obras.elems, limite),
                                   respuestas, ahora)
             IN  IF ids_obras.elems = << >>
                 THEN ResultadoBusqueda(a1, Lista(<< >>), api, 0)
                 ELSE ResultadoBusqueda(c.alm, Lista(c.ret), api + c.api, c.errores)

buscar_por_nacionalidad(a, nacionalidad, respuesta_ids, respuestas, ahora) ==
    LET nacionalidad_limpia == Recortar(nacionalidad)
        coincide(obra) ==
            /\ obra.artista.nacionalidad # None
            /\ obra.artista.nacionalidad.texto # ""
            /\ EstaEn(Minusculas(nacionalidad_limpia),
                      Minusculas(obra.artista.nacionalidad.texto))
    IN  IF nacionalidad = "" \/ nacionalidad_limpia = ""
           \/ ~validar_nacionalidad(nacionalidad_limpia)
        THEN ResultadoBusqueda(a, ErrorNacionalidadInvalida, 0, 0)
        ELSE LET b == buscar_por_query(
                        a, "nacionalidad:" \o Minusculas(nacionalidad_limpia),
                        LIMITE_NACIONALIDAD, respuesta_ids, respuestas, ahora)
             IN  IF isinstance(b.ret, "list")
                 THEN [b EXCEPT !.ret = Lista(SelectSeq(@.elems, coincide))]
                 ELSE b

\* ServicioBusqueda._sanitizar_nombre_artista on the names of the model,
\* which hold no character it drops
sanitizar_nombre_artista(nombre) == Recortar(nombre)

verificar_coincidencia_nombre_artista(nombre_obra, nombre_busqueda) ==
    /\ nombre_obra # ""
    /\ nombre_busqueda # ""
    /\ EstaEn(Minusculas(nombre_busqueda), Minusculas(nombre_obra))

buscar_por_nombre_artista(a, nombre_artista, respuesta_ids, respuestas, ahora) ==
    LET nombre_limpio == sanitizar_nombre_artista(nombre_artista)
        coincide(obra) ==
            verificar_coincidencia_nombre_artista(obra.artista.nombre, nombre_limpio)
    IN  IF nombre_artista = "" \/ nombre_limpio = ""
        THEN ResultadoBusqueda(a, ErrorServicioBusqueda, 0, 0)
        ELSE LET b == buscar_por_query(
                        a, "artista:" \o Minusculas(nombre_limpio),
                        LIMITE_ARTISTA, respuesta_ids, respuestas, ahora)
             IN  IF isinstance(b.ret, "list")
                 THEN [b EXCEPT !.ret = Lista(SelectSeq(@.elems, coincide))]
                 ELSE b

\* the last call of a search: what it returned, the calls it made to the
\* remote API and the works it gave up
LlamadaDeBusqueda(op, clave, r) ==
    [op |-> op, clave |-> clave, valor |-> r.ret, api |-> r.api,
     errores |-> r.errores]

BuscarPorDepartamento(id_departamento, respuesta_ids, respuestas) ==
    /\ LET r == buscar_por_departamento(almacen, id_departamento, respuesta_ids,
                                        respuestas, reloj)
       IN  /\ almacen' = r.alm
           /\ retorno' = LlamadaDeBusqueda("buscar_por_departamento",
                                           Entero(id_departamento), r)
    /\ UNCHANGED <<reloj, sombra, entrada, perfil, concurrencia>>

BuscarPorNacionalidad(nacionalidad, respuesta_ids, respuestas) ==
    /\ LET r == buscar_por_nacionalidad(almacen, nacionalidad, respuesta_ids,
                                        respuestas, reloj)
       IN  /\ almacen' = r.alm
           /\ retorno' = LlamadaDeBusqueda("buscar_por_nacionalidad",
                                           Str(nacionalidad), r)
    /\ UNCHANGED <<reloj, sombra, entrada, perfil, concurrencia>>

BuscarPorNombreArtista(nombre_artista, respuesta_ids, respuestas) ==
    /\ LET r == buscar_por_nombre_artista(almacen, nombre_artista, respuesta_ids,
                                          respuestas, reloj)
       IN  /\ almacen' = r.alm
           /\ retorno' = LlamadaDeBusqueda("buscar_por_nombre_artista",
                                           Str(nombre_artista), r)
    /\ UNCHANGED <<reloj, sombra, entrada, perfil, concurrencia>>

ObtenerDepartamentosDisponibles(respuesta) ==
    /\ LET r == obtener_departamentos_disponibles(almacen, respuesta, reloj)
       IN  /\ almacen' = r.alm
           /\ retorno' = LlamadaDeBusqueda("obtener_departamentos_disponibles",
                                           None, r)
    /\ UNCHANGED <<reloj, sombra, entrada, perfil, concurrencia>>

\* ServicioObras.obtener_detalles_obra on the store the searches use
ObtenerDetallesObraCompartido(id_obra, respuesta) ==
    /\ LET r == obtener_detalles_obra(almacen, id_obra, respuesta, reloj)
       IN  /\ almacen' = r.alm
           /\ retorno' = [op |-> "obtener_detalles_obra", clave |-> Entero(id_obra),
                          valor |-> r.ret, api |-> IF r.api THEN 1 ELSE 0,
                          errores |-> 0]
    /\ UNCHANGED <<reloj, sombra, entrada, perfil, concurrencia>>

\* the arguments the callers of the searches pass
DepartamentosBuscados == {0, 1}
NacionalidadesBuscadas == {"", " French "}
ArtistasBuscados == {"Monet"}

PerfilesServicios ==
    {"servicio_departamento", "servicio_texto", "servicio_departamentos"}

InitServicios ==
    /\ perfil \in PerfilesServicios
    /\ reloj = 0
    /\ almacen = AlmacenVacio
    /\ retorno = [op |-> "__init__", clave |-> None, valor |-> None]
    /\ entrada = None
    /\ sombra = None
    /\ hilos = [h \in Hilos |-> Ocioso(0, 0)]
    /\ candado = 0
    /\ almacen_sec = AlmacenVacio

PuedeBuscar == Consultas(almacen) < MaxConsultasBusqueda

NextServicios ==
    \/ perfil = "servicio_departamento" /\ PuedeBuscar
         /\ \E d \in DepartamentosBuscados, ri \in RespuestasIds,
               ro \in RespuestasObras :
              BuscarPorDepartamento(d, ri, ro)
    \/ perfil = "servicio_departamento" /\ PuedeBuscar
         /\ \E id_obra \in IdsObra :
              \E respuesta \in RespuestasDetallesObra(id_obra) :
                 ObtenerDetallesObraCompartido(id_obra, respuesta)
    \/ perfil = "servicio_texto" /\ PuedeBuscar
         /\ \E n \in NacionalidadesBuscadas, ri \in RespuestasIds,
               ro \in RespuestasObras :
              BuscarPorNacionalidad(n, ri, ro)
    \/ perfil = "servicio_texto" /\ PuedeBuscar
         /\ \E n \in ArtistasBuscados, ri \in RespuestasIds,
               ro \in RespuestasObras :
              BuscarPorNombreArtista(n, ri, ro)
    \/ perfil = "servicio_departamentos" /\ PuedeBuscar
         /\ \E respuesta \in RespuestasDepartamentos :
              ObtenerDepartamentosDisponibles(respuesta)
    \/ InvalidarTodoCache
    \/ Avanzar

SpecServicios == InitServicios /\ [][NextServicios]_vars

\* the searches of ServicioBusqueda next to a caller that reads and writes
\* the lists of ids of the same store itself

\* the keys under which the searches by text keep their ids, and the lists
\* of ids a caller may store
ClavesDeServicio == {"nacionalidad:french", "artista:monet"}
ListasDeServicio == {l \in RespuestasIds : isinstance(l, "list")}

InitListas ==
    /\ perfil \in {"listas_departamento", "listas_texto"}
    /\ reloj = 0
    /\ almacen = AlmacenVacio
    /\ retorno = [op |-> "__init__", clave |-> None, valor |-> None]
    /\ entrada = None
    /\ sombra = None
    /\ hilos = [h \in Hilos |-> Ocioso(0, 0)]
    /\ candado = 0
    /\ almacen_sec = AlmacenVacio

PuedeBuscarListas == Consultas(almacen) < MaxConsultasListas

NextListas ==
    \/ perfil = "listas_texto" /\ PuedeBuscarListas
         /\ \E k \in ClavesDeServicio : ObtenerResultadoBusqueda(k)
    \/ perfil = "listas_texto"
         /\ \E k \in ClavesDeServicio, l \in ListasDeServicio :
              AlmacenarResultadoBusqueda(k, l)
    \/ perfil = "listas_departamento"
         /\ \E d \in IdsDepartamento : ObtenerIdsDepartamento(d)
    \/ perfil = "listas_departamento"
         /\ \E d \in IdsDepartamento, l \in ListasDeServicio :
              AlmacenarIdsDepartamento(d, l)
    \/ perfil = "listas_departamento" /\ PuedeBuscarListas
         /\ \E d \in IdsDepartamento, ri \in RespuestasIds,
               ro \in RespuestasObras :
              BuscarPorDepartamento(d, ri, ro)
    \/ perfil = "listas_texto" /\ PuedeBuscarListas
         /\ \E n \in NacionalidadesBuscadas \ {""}, ri \in RespuestasIds,
               ro \in RespuestasObras :
              BuscarPorNacionalidad(n, ri, ro)
    \/ perfil = "listas_texto" /\ PuedeBuscarListas
         /\ \E n \in ArtistasBuscados, ri \in RespuestasIds,
               ro \in RespuestasObras :
              BuscarPorNombreArtista(n, ri, ro)
    \/ InvalidarTodoCache
    \/ Avanzar

SpecListas == InitListas /\ [][NextListas]_vars

----------------------------------------------------------------------------
(* Two threads in ServicioObras.obtener_detalles_obra on one store.  The   *)
(* service takes no lock of its own: the call of obtener_obra, the call of *)
(* the remote API and the call of almacenar_obra are three steps, and only *)
(* each call of the store is atomic (it runs under the lock of the store). *)

\* a thread of the service: where it is, the work it looks up, the work it
\* built from the answer, what its last lookup returned, how many lookups it
\* has finished, and per work the calls it made to the remote API and how
\* many of them failed
HiloServicio(pc, id_obra, obra, ret, llamadas, api, fallos) ==
    [pc |-> pc, id_obra |-> id_obra, obra |-> obra, ret |-> ret,
     llamadas |-> llamadas, api |-> api, fallos |-> fallos]

\* obtener_detalles_obra up to the answer of the store (lines 63-66)
ConsultarCache(h, id_obra) ==
    /\ hilos[h].pc = "ocioso"
    /\ hilos[h].llamadas < MaxLlamadasServicio
    /\ LET r == obtener_obra(almacen, id_obra, reloj)
       IN  /\ almacen' = r.alm
           /\ hilos' = [hilos EXCEPT ![h] =
                 IF r.ret # None
                 THEN [@ EXCEPT !.ret = r.ret, !.llamadas = @ + 1]
                 ELSE [@ EXCEPT !.pc = "api", !.id_obra = id_obra]]
    /\ UNCHANGED <<reloj, retorno, entrada, sombra, perfil, candado, almacen_sec>>

\* the call of the remote API, the validation and the conversion (69-78)
LlamarAPI(h, respuesta) ==
    /\ hilos[h].pc = "api"
    /\ LET id_obra == hilos[h].id_obra
           falla == ~isinstance(respuesta, "dict") \/ ~validar_datos_obra(respuesta)
       IN  hilos' = [hilos EXCEPT ![h] =
             IF falla
             THEN [@ EXCEPT !.pc = "ocioso",
                            !.ret = IF isinstance(respuesta, "dict")
                                    THEN ErrorDatosIncompletos ELSE respuesta,
                            !.llamadas = @ + 1,
                            !.api[id_obra] = @ + 1,
                            !.fallos[id_obra] = @ + 1]
             ELSE [@ EXCEPT !.pc = "guardar",
                            !.obra = convertir_datos_api_a_obra(respuesta),
                            !.api[id_obra] = @ + 1]]
    /\ UNCHANGED <<reloj, almacen, retorno, entrada, sombra, perfil, candado,
                   almacen_sec>>

\* the return without the write-back
GuardarEnCache_sin_guardar(h) ==
    /\ hilos[h].pc = "guardar"
    /\ hilos' = [hilos EXCEPT ![h] =
                    [@ EXCEPT !.pc = "ocioso", !.ret = hilos[h].obra,
                              !.obra = None, !.llamadas = @ + 1]]
    /\ UNCHANGED <<reloj, almacen, retorno, entrada, sombra, perfil, candado,
                   almacen_sec>>

\* the write-back and the return (81-83)
GuardarEnCache(h) ==
    /\ hilos[h].pc = "guardar"
    /\ almacen' = almacenar_obra(almacen, hilos[h].obra, reloj).alm
    /\ hilos' = [hilos EXCEPT ![h] =
                    [@ EXCEPT !.pc = "ocioso", !.ret = hilos[h].obra,
                              !.obra = None, !.llamadas = @ + 1]]
    /\ UNCHANGED <<reloj, retorno, entrada, sombra, perfil, candado, almacen_sec>>

InitServicioHilos ==
    /\ perfil = "servicio_hilos"
    /\ reloj = 0
    /\ almacen = AlmacenVacio
    /\ retorno = [op |-> "__init__", clave |-> None, valor |-> None]
    /\ entrada = None
    /\ sombra = None
    /\ hilos = [h \in Hilos |->
                  HiloServicio("ocioso", 0, None, None, 0,
                               [i \in IdsObra |-> 0], [i \in IdsObra |-> 0])]
    /\ candado = 0
    /\ almacen_sec = AlmacenVacio

NextServicioHilos ==
    \/ \E h \in Hilos, id_obra \in IdsObra : ConsultarCache(h, id_obra)
    \/ \E h \in Hilos :
         \E respuesta \in RespuestasDetallesObra(hilos[h].id_obra) :
            LlamarAPI(h, respuesta)
    \/ \E h \in Hilos : GuardarEnCache(h)

SpecServicioHilos == InitServicioHilos /\ [][NextServicioHilos]_vars

----------------------------------------------------------------------------
(* Vocabulary of the properties *)

\* the age of entry e has reached its tiempo_vida
Caducada(e) == reloj - e.timestamp >= e.tiempo_vida

\* dict d holds key k with an entry that has not expired
TieneVigente(d, k) ==
    \E i \in DOMAIN d : d[i].clave = k /\ ~Caducada(d[i].entrada)

\* dict d holds key k with an entry that has expired
TieneCaducada(d, k) ==
    \E i \in DOMAIN d : d[i].clave = k /\ Caducada(d[i].entrada)

\* the data stored under key k of dict d
DatosDe(d, k) == d[CHOOSE i \in DOMAIN d : d[i].clave = k].entrada.datos

\* dict d without the pairs of key k, the others as they were
SinClave(d, k) == SelectSeq(d, LAMBDA p : p.clave # k)

\* how many pairs of dict d have key k
Apariciones(d, k) == Cardinality({i \in DOMAIN d : d[i].clave = k})

\* the four regions of a store
RegionesDe(a) ==
    <<a.cache_obras, a.cache_departamentos, a.cache_busquedas,
      a.cache_ids_departamento>>

\* the last call was op and returned a value that is not None
Devolvio(op) == retorno.op = op /\ retorno.valor # None

----------------------------------------------------------------------------
(* C1: no read operation ever returns data of an entry whose age has       *)
(* reached its tiempo_vida: whatever obtener_obra, obtener_departamentos,  *)
(* obtener_resultado_busqueda, obtener_ids_departamento return that is not *)
(* None, and every work buscar_obras_por_criterio returns, is the data of  *)
(* an entry stored under that key whose age is below its tiempo_vida.      *)
C1_SinLecturasCaducadas ==
    [][/\ \A id \in IdsObra :
            ObtenerObra(id) /\ retorno'.valor # None
            => /\ TieneVigente(almacen.cache_obras, id)
               /\ retorno'.valor = DatosDe(almacen.cache_obras, id)
       /\ ObtenerDepartamentos /\ retorno'.valor # None
            => /\ almacen.cache_departamentos # None
               /\ ~Caducada(almacen.cache_departamentos)
               /\ retorno'.valor = almacen.cache_departamentos.datos
       /\ \A k \in ClavesBusqueda :
            ObtenerResultadoBusqueda(k) /\ retorno'.valor # None
            => /\ TieneVigente(almacen.cache_busquedas, k)
               /\ retorno'.valor = DatosDe(almacen.cache_busquedas, k)
       /\ \A d \in IdsDepartamento :
            ObtenerIdsDepartamento(d) /\ retorno'.valor # None
            => /\ TieneVigente(almacen.cache_ids_departamento, d)
               /\ retorno'.valor = DatosDe(almacen.cache_ids_departamento, d)
       /\ \A c \in Criterios :
            BuscarObrasPorCriterio(c)
            => \A i \in DOMAIN retorno'.valor.elems :
                  \E j \in DOMAIN almacen.cache_obras :
                     /\ almacen.cache_obras[j].entrada.datos = retorno'.valor.elems[i]
                     /\ ~Caducada(almacen.cache_obras[j].entrada)
      ]_vars

\* a work was returned one second before its entry expires
C1_Testigo ==
    /\ Devolvio("obtener_obra")
    /\ \E i \in DOMAIN almacen.cache_obras :
          /\ Entero(almacen.cache_obras[i].clave) = retorno.clave
          /\ reloj - almacen.cache_obras[i].entrada.timestamp = TIEMPO_VIDA_OBRAS - 1

----------------------------------------------------------------------------
\* the get on a key with history h, stored with TTL tiempo_vida, returns v
IdaYVuelta(h, tiempo_vida, v) ==
    /\ h.estado = "puesta" /\ reloj - h.t < tiempo_vida => v = h.valor
    /\ h.estado \in {"vacia", "vacia_invalidada"} => v = None

(* C2: round trip in every region.  A get returns the value of the last    *)
(* put on its key when the region's TTL has not elapsed since that put and *)
(* no invalidation came after it, and None on a key that was never stored. *)
C2_IdaYVuelta ==
    [][sombra # None =>
        /\ \A id \in IdsObra :
              ObtenerObra(id)
              => IdaYVuelta(sombra.obras[id], TIEMPO_VIDA_OBRAS, retorno'.valor)
        /\ ObtenerDepartamentos
              => IdaYVuelta(sombra.departamentos, TIEMPO_VIDA_DEPARTAMENTOS,
                            retorno'.valor)
        /\ \A k \in ClavesBusqueda :
              ObtenerResultadoBusqueda(k)
              => IdaYVuelta(sombra.busquedas[k], TIEMPO_VIDA_BUSQUEDAS,
                            retorno'.valor)
        /\ \A d \in IdsDepartamento :
              ObtenerIdsDepartamento(d)
              => IdaYVuelta(sombra.ids_departamento[d], TIEMPO_VIDA_LISTAS_IDS,
                            retorno'.valor)
      ]_vars

\* a list of ids stored earlier came back, time having passed since the put
C2_Testigo ==
    /\ Devolvio("obtener_ids_departamento")
    /\ sombra # None
    /\ sombra.ids_departamento[retorno.clave.n].estado = "puesta"
    /\ sombra.ids_departamento[retorno.clave.n].valor = retorno.valor
    /\ reloj > sombra.ids_departamento[retorno.clave.n].t

----------------------------------------------------------------------------
Transcurrido == reloj - entrada.timestamp

(* C3: TTL of an EntradaCache created with tiempo_vida = T > 0.            *)
(* es_valida() is true exactly while the time elapsed since its creation   *)
(* is below T (so it is true at creation, and false from elapsed = T on),  *)
(* obtener_datos() returns the data exactly then and None otherwise, and   *)
(* neither changes the entry.                                              *)
C3_TiempoDeVida ==
    [][/\ \A d \in DatosDePrueba, T \in 1 .. MaxTiempoVida :
            CrearEntrada(d, T)
            => entrada' = [datos |-> d, timestamp |-> reloj, tiempo_vida |-> T]
       /\ EsValida
            => /\ retorno'.valor = Bool(Transcurrido < entrada.tiempo_vida)
               /\ entrada' = entrada
       /\ ObtenerDatos
            => /\ retorno'.valor =
                    IF Transcurrido < entrada.tiempo_vida THEN entrada.datos ELSE None
               /\ entrada' = entrada
       /\ entrada # None /\ entrada' = entrada
            => (Transcurrido >= entrada.tiempo_vida => Transcurrido' >= entrada.tiempo_vida)
      ]_vars

\* es_valida() answered False at the instant the elapsed time equals T
C3_Testigo ==
    /\ retorno.op = "es_valida"
    /\ retorno.valor = Bool(FALSE)
    /\ entrada # None
    /\ Transcurrido = entrada.tiempo_vida

----------------------------------------------------------------------------
(* C4: hit/miss accounting.  A call of obtener_obra, obtener_departamentos *)
(* or obtener_resultado_busqueda adds one to the hit counter of its region *)
(* and returns the data when an unexpired entry is stored for the key, and *)
(* adds one to the miss counter of its region and returns None otherwise;  *)
(* every other counter keeps its value.                                    *)

C4_Contabilidad ==
    [][/\ \A id \in IdsObra :
            ObtenerObra(id)
            => IF TieneVigente(almacen.cache_obras, id)
               THEN /\ almacen'.estadisticas =
                         [almacen.estadisticas EXCEPT !.hits_obras = @ + 1]
                    /\ retorno'.valor = DatosDe(almacen.cache_obras, id)
               ELSE /\ almacen'.estadisticas =
                         [almacen.estadisticas EXCEPT !.misses_obras = @ + 1]
                    /\ retorno'.valor = None
       /\ ObtenerDepartamentos
            => IF almacen.cache_departamentos # None
                  /\ ~Caducada(almacen.cache_departamentos)
               THEN /\ almacen'.estadisticas =
                         [almacen.estadisticas EXCEPT !.hits_departamentos = @ + 1]
                    /\ retorno'.valor = almacen.cache_departamentos.datos
               ELSE /\ almacen'.estadisticas =
                         [almacen.estadisticas EXCEPT !.misses_departamentos = @ + 1]
                    /\ retorno'.valor = None
       /\ \A k \in ClavesBusqueda :
            ObtenerResultadoBusqueda(k)
            => IF TieneVigente(almacen.cache_busquedas, k)
               THEN /\ almacen'.estadisticas =
                         [almacen.estadisticas EXCEPT !.hits_busquedas = @ + 1]
                    /\ retorno'.valor = DatosDe(almacen.cache_busquedas, k)
               ELSE /\ almacen'.estadisticas =
                         [almacen.estadisticas EXCEPT !.misses_busquedas = @ + 1]
                    /\ retorno'.valor = None
      ]_vars

\* a search result that had expired was looked up: one miss, no hit
C4_Testigo ==
    /\ retorno.op = "obtener_resultado_busqueda"
    /\ retorno.valor = None
    /\ sombra # None
    /\ sombra.busquedas[retorno.clave.texto].estado = "caducada"
    /\ almacen.estadisticas.misses_busquedas = 1
    /\ almacen.estadisticas.hits_busquedas = 0

----------------------------------------------------------------------------
(* C5: lazy eviction on read.  A get on a key whose entry has expired      *)
(* removes that entry from its region (empties the departments slot) and   *)
(* changes no other entry of any region; a get that hits or finds no entry *)
(* changes no region.                                                      *)

C5_DesalojoAlLeer ==
    [][/\ \A id \in IdsObra :
            ObtenerObra(id)
            => RegionesDe(almacen') =
                 IF TieneCaducada(almacen.cache_obras, id)
                 THEN [RegionesDe(almacen) EXCEPT ![1] = SinClave(@, id)]
                 ELSE RegionesDe(almacen)
       /\ ObtenerDepartamentos
            => RegionesDe(almacen') =
                 IF almacen.cache_departamentos # None
                    /\ Caducada(almacen.cache_departamentos)
                 THEN [RegionesDe(almacen) EXCEPT ![2] = None]
                 ELSE RegionesDe(almacen)
       /\ \A k \in ClavesBusqueda :
            ObtenerResultadoBusqueda(k)
            => RegionesDe(almacen') =
                 IF TieneCaducada(almacen.cache_busquedas, k)
                 THEN [RegionesDe(almacen) EXCEPT ![3] = SinClave(@, k)]
                 ELSE RegionesDe(almacen)
       /\ \A d \in IdsDepartamento :
            ObtenerIdsDepartamento(d)
            => RegionesDe(almacen') =
                 IF TieneCaducada(almacen.cache_ids_departamento, d)
                 THEN [RegionesDe(almacen) EXCEPT ![4] = SinClave(@, d)]
                 ELSE RegionesDe(almacen)
      ]_vars

\* the get of an expired work removed it and left the other work, expired
\* as well, where it was
C5_Testigo ==
    /\ retorno.op = "obtener_obra"
    /\ retorno.valor = None
    /\ sombra # None
    /\ sombra.obras[retorno.clave.n].estado = "caducada"
    /\ Apariciones(almacen.cache_obras, retorno.clave.n) = 0
    /\ Len(almacen.cache_obras) = 1
    /\ Caducada(almacen.cache_obras[1].entrada)

----------------------------------------------------------------------------
\* the entry stored under key k of dict d
EntradaDe(d, k) == d[CHOOSE i \in DOMAIN d : d[i].clave = k].entrada

\* dict dd is dict d after a put of datos under the key k it already held
Sobrescrita(d, dd, k, datos, tiempo_vida) ==
    /\ Apariciones(dd, k) = 1
    /\ EntradaDe(dd, k) =
         [datos |-> datos, timestamp |-> reloj, tiempo_vida |-> tiempo_vida]
    /\ Len(dd) <= Len(d)

(* C6: idempotent overwrite.  A put on a key that already has an entry,    *)
(* expired or not, leaves exactly one entry for that key, holding the new  *)
(* value with the time of this put as its creation time; the region does   *)
(* not grow.                                                               *)
C6_Sobrescritura ==
    [][/\ \A obra \in Obras :
            AlmacenarObra(obra) /\ Apariciones(almacen.cache_obras, obra.id_obra) > 0
            => Sobrescrita(almacen.cache_obras, almacen'.cache_obras,
                           obra.id_obra, obra, TIEMPO_VIDA_OBRAS)
       /\ \A l \in ListasDepartamentos :
            AlmacenarDepartamentos(l) /\ almacen.cache_departamentos # None
            => almacen'.cache_departamentos =
                 [datos |-> l, timestamp |-> reloj,
                  tiempo_vida |-> TIEMPO_VIDA_DEPARTAMENTOS]
       /\ \A k \in ClavesBusqueda, l \in ListasIds :
            AlmacenarResultadoBusqueda(k, l)
               /\ Apariciones(almacen.cache_busquedas, k) > 0
            => Sobrescrita(almacen.cache_busquedas, almacen'.cache_busquedas,
                           k, l, TIEMPO_VIDA_BUSQUEDAS)
       /\ \A d \in IdsDepartamento, l \in ListasIds :
            AlmacenarIdsDepartamento(d, l)
               /\ Apariciones(almacen.cache_ids_departamento, d) > 0
            => Sobrescrita(almacen.cache_ids_departamento,
                           almacen'.cache_ids_departamento,
                           d, l, TIEMPO_VIDA_LISTAS_IDS)
      ]_vars

\* two works are stored and the one stored first has the later creation
\* time: it was stored again, in place
C6_Testigo ==
    /\ retorno.op = "almacenar_obra"
    /\ Len(almacen.cache_obras) = 2
    /\ Entero(almacen.cache_obras[1].clave) = retorno.clave
    /\ almacen.cache_obras[1].entrada.timestamp
         > almacen.cache_obras[2].entrada.timestamp
    /\ almacen.cache_obras[1].entrada.timestamp = reloj

----------------------------------------------------------------------------
\* no automatic sweep ran in this step
SinBarrido ==
    almacen'.estadisticas.limpiezas_automaticas
        = almacen.estadisticas.limpiezas_automaticas

\* the regions other than number n are the same before and after
SoloCambia(n) ==
    \A m \in 1 .. 4 : m # n => RegionesDe(almacen')[m] = RegionesDe(almacen)[m]

(* C7: region independence.  invalidar_cache_obras, _departamentos and     *)
(* _busquedas empty their own region and leave the three others as they    *)
(* were; a get or a put on one region leaves the other regions as they     *)
(* were, unless the put ran the expiry sweep.                              *)
C7_IndependenciaDeRegiones ==
    [][/\ InvalidarCacheObras
            => RegionesDe(almacen') = [RegionesDe(almacen) EXCEPT ![1] = << >>]
       /\ InvalidarCacheDepartamentos
            => RegionesDe(almacen') = [RegionesDe(almacen) EXCEPT ![2] = None]
       /\ InvalidarCacheBusquedas
            => RegionesDe(almacen') = [RegionesDe(almacen) EXCEPT ![3] = << >>]
       /\ (\E id \in IdsObra : ObtenerObra(id)) => SoloCambia(1)
       /\ (\E obra \in Obras \cup {NoEsObra} : AlmacenarObra(obra)) /\ SinBarrido
            => SoloCambia(1)
       /\ ObtenerDepartamentos => SoloCambia(2)
       /\ (\E l \in ListasDepartamentos \cup {NoEsLista} : AlmacenarDepartamentos(l))
            => SoloCambia(2)
       /\ (\E k \in ClavesBusqueda : ObtenerResultadoBusqueda(k)) => SoloCambia(3)
       /\ (\E k \in ClavesBusqueda, l \in ListasIds \cup {NoEsLista} :
                AlmacenarResultadoBusqueda(k, l)) /\ SinBarrido
            => SoloCambia(3)
       /\ (\E d \in IdsDepartamento : ObtenerIdsDepartamento(d)) => SoloCambia(4)
       /\ (\E d \in IdsDepartamento, l \in ListasIds \cup {NoEsLista} :
                AlmacenarIdsDepartamento(d, l))
            => SoloCambia(4)
      ]_vars

\* the works were invalidated (a work had been stored: it was hit) and the
\* three other regions still hold their entries
C7_Testigo ==
    /\ retorno.op = "invalidar_cache_obras"
    /\ almacen.estadisticas.hits_obras = 1
    /\ almacen.cache_obras = << >>
    /\ almacen.cache_departamentos # None
    /\ almacen.cache_busquedas # << >>
    /\ almacen.cache_ids_departamento # << >>

----------------------------------------------------------------------------
\* the region of the key with history h was invalidated after its last put
Invalidada(h) == h.estado \in {"invalidada", "vacia_invalidada"}

(* C9: invalidation lasts until the next put.  After an invalidation of a  *)
(* region (by its own invalidation or by invalidar_todo_cache) a get on    *)
(* any key of it returns None as long as no put on that key came after,    *)
(* and the works service, looking such a work up, calls the remote API.    *)
C9_InvalidacionEfectiva ==
    [][sombra # None =>
        /\ \A id \in IdsObra :
              ObtenerObra(id) /\ Invalidada(sombra.obras[id])
              => retorno'.valor = None
        /\ ObtenerDepartamentos /\ Invalidada(sombra.departamentos)
              => retorno'.valor = None
        /\ \A k \in ClavesBusqueda :
              ObtenerResultadoBusqueda(k) /\ Invalidada(sombra.busquedas[k])
              => retorno'.valor = None
        /\ \A d \in IdsDepartamento :
              ObtenerIdsDepartamento(d) /\ Invalidada(sombra.ids_departamento[d])
              => retorno'.valor = None
        /\ \A id \in IdsObra :
              (\E respuesta \in RespuestasDetallesObra(id) :
                    ObtenerDetallesObra(id, respuesta))
                 /\ Invalidada(sombra.obras[id])
              => retorno'.api
      ]_vars

\* the service answered a lookup from the cache, the cache was invalidated,
\* and the next lookup of the same work called the API and got the work
C9_Testigo ==
    /\ retorno.op = "obtener_detalles_obra"
    /\ retorno.api
    /\ isinstance(retorno.valor, "ObraArte")
    /\ almacen.estadisticas.hits_obras = 1
    /\ almacen.estadisticas.misses_obras = 2
    /\ sombra.obras[retorno.clave.n].estado = "puesta"
    /\ \E id \in IdsObra : id # retorno.clave.n /\ Invalidada(sombra.obras[id])

----------------------------------------------------------------------------
\* thread h is between the first and the last statement of invalidar_todo_cache
EnMedioDeInvalidarTodo(h) ==
    hilos[h].pc \in {"limpiar_departamentos", "limpiar_busquedas",
                     "limpiar_ids_departamento"}

(* C8: invalidar_todo_cache is atomic.  Whatever the interleaving, no      *)
(* thread reads or writes the store while another is between the first and *)
(* the last of the four clearing statements, and when the last one has run *)
(* the four regions are empty.                                             *)
C8_InvalidarTodoAtomico ==
    [][/\ \A g \in Hilos :
            Leer(g) \/ Escribir(g)
            => \A h \in Hilos : ~EnMedioDeInvalidarTodo(h)
       /\ \A h \in Hilos :
            LimpiarIdsDepartamento(h)
            => RegionesDe(almacen') = << << >>, None, << >>, << >> >>
      ]_vars

\* a thread has cleared the works that were stored and not yet the lists of
\* ids, which still are, while the other thread waits to read one of them
C8_Testigo ==
    \E h, g \in Hilos :
        /\ hilos[h].pc = "limpiar_busquedas"
        /\ almacen.cache_ids_departamento # << >>
        /\ almacen.cache_obras = << >>
        /\ almacen_sec.cache_obras # << >>
        /\ hilos[g].pc = "esperando"
        /\ hilos[g].llamada.nombre = "obtener_ids_departamento"

----------------------------------------------------------------------------
\* thread h is inside the body of a call
EnCuerpo(h) == hilos[h].pc \notin {"ocioso", "esperando"}

(* C10: mutual exclusion and atomicity.  Whatever the interleaving, at     *)
(* most one thread is inside the body of an operation, and it holds the    *)
(* lock; whenever the lock is free the store is the one that the calls     *)
(* made so far give when run one at a time in the order they took the      *)
(* lock; a call returns what it returns in that sequential run; and the    *)
(* hits and misses of the works add up to the calls of obtener_obra that   *)
(* returned.                                                               *)
C10_ExclusionMutua ==
    /\ \A h, g \in Hilos : EnCuerpo(h) /\ EnCuerpo(g) => h = g
    /\ \A h \in Hilos : EnCuerpo(h) => candado = h
    /\ candado = 0 => almacen = almacen_sec
    /\ \A h \in Hilos : hilos[h].pc = "liberar" => hilos[h].ret = hilos[h].esperado
    /\ candado = 0 =>
         almacen.estadisticas.hits_obras + almacen.estadisticas.misses_obras
            = hilos[1].consultas + hilos[2].consultas

\* a put by one thread has run the sweep, which removed the expired lists
\* of ids, and is about to return, while the other thread, which has looked
\* a work up before, waits for the lock to look it up again
C10_Testigo ==
    \E h, g \in Hilos :
        /\ hilos[h].pc = "liberar"
        /\ hilos[h].llamada.nombre = "almacenar_obra"
        /\ almacen.estadisticas.limpiezas_automaticas = 1
        /\ Len(almacen.cache_ids_departamento) < UMBRAL_LIMPIEZA
        /\ hilos[g].pc = "esperando"
        /\ hilos[g].llamada.nombre = "obtener_obra"
        /\ hilos[g].consultas = 1
        /\ almacen.estadisticas.misses_obras = 1

----------------------------------------------------------------------------
\* call ll is a put
EsAlmacenar(ll) ==
    ll.nombre \in {"almacenar_obra", "almacenar_departamentos",
                   "almacenar_resultado_busqueda", "almacenar_ids_departamento"}

\* the type the put of call ll requires of its value
TipoRequerido(ll) == IF ll.nombre = "almacenar_obra" THEN "ObraArte" ELSE "list"

(* C11: invalid arguments never corrupt the cache.  A call by any thread   *)
(* of almacenar_obra with a value that is not an ObraArte, or of           *)
(* almacenar_departamentos, almacenar_resultado_busqueda or                *)
(* almacenar_ids_departamento with a value that is not a list, raises      *)
(* ValueError at once, leaves the four regions and the counters as they    *)
(* were, and leaves the caller outside the lock.                           *)
C11_ArgumentosInvalidos ==
    [][\A h \in Hilos, ll \in LlamadasHilos(perfil) :
          Invocar(h, ll) /\ EsAlmacenar(ll) /\ ll.valor.tipo # TipoRequerido(ll)
          => /\ retorno'.op = ll.nombre
             /\ retorno'.valor = ValueError
             /\ almacen' = almacen
             /\ hilos'[h].pc = "ocioso"
             /\ candado' # h
      ]_vars

\* a search result that is not a list was refused while the other thread,
\* inside the lock, was about to write, a search result being stored
C11_Testigo ==
    /\ retorno.op = "almacenar_resultado_busqueda"
    /\ retorno.valor = ValueError
    /\ almacen.cache_busquedas # << >>
    /\ \E g \in Hilos : hilos[g].pc = "escribir" /\ candado = g

----------------------------------------------------------------------------
\* the step is a call of an operation that is not a put
NoEsAlmacenar ==
    \/ \E id \in IdsObra : ObtenerObra(id)
    \/ ObtenerDepartamentos
    \/ \E k \in ClavesBusqueda : ObtenerResultadoBusqueda(k)
    \/ \E d \in IdsDepartamento : ObtenerIdsDepartamento(d)
    \/ \E c \in Criterios : BuscarObrasPorCriterio(c)
    \/ InvalidarCacheObras
    \/ InvalidarCacheDepartamentos
    \/ InvalidarCacheBusquedas
    \/ InvalidarTodoCache
    \/ ObtenerEstadisticasCache
    \/ LimpiarCacheManual

----------------------------------------------------------------------------
\* the entries the sweep counts: works, searches and lists of ids
TotalEntradas(a) ==
    Len(a.cache_obras) + Len(a.cache_busquedas) + Len(a.cache_ids_departamento)

\* the count of dict d once key k has been stored in it
LenTras(d, k) == IF Apariciones(d, k) > 0 THEN Len(d) ELSE Len(d) + 1

\* no entry of store a, in any region, has expired
SinCaducadas(a) ==
    /\ \A i \in DOMAIN a.cache_obras : ~Caducada(a.cache_obras[i].entrada)
    /\ \A i \in DOMAIN a.cache_busquedas : ~Caducada(a.cache_busquedas[i].entrada)
    /\ \A i \in DOMAIN a.cache_ids_departamento :
            ~Caducada(a.cache_ids_departamento[i].entrada)
    /\ a.cache_departamentos # None => ~Caducada(a.cache_departamentos)

\* the sweep ran in this step: every expired entry is gone and
\* limpiezas_automaticas is one more
HuboBarrido ==
    /\ almacen'.estadisticas.limpiezas_automaticas
         = almacen.estadisticas.limpiezas_automaticas + 1
    /\ SinCaducadas(almacen')

(* C13: automatic cleanup trigger.  After an insertion by almacenar_obra,  *)
(* almacenar_resultado_busqueda or almacenar_ids_departamento that leaves  *)
(* more than 1000 works, searches and lists of ids together, the sweep has *)
(* run and limpiezas_automaticas is one more when the call returns.        *)
C13_DisparoDeLimpieza ==
    [][/\ \A obra \in Obras :
            AlmacenarObra(obra)
               /\ TotalEntradas(almacen) - Len(almacen.cache_obras)
                    + LenTras(almacen.cache_obras, obra.id_obra) > UMBRAL_LIMPIEZA
            => HuboBarrido
       /\ \A k \in ClavesBusqueda, l \in ListasIds :
            AlmacenarResultadoBusqueda(k, l)
               /\ TotalEntradas(almacen) - Len(almacen.cache_busquedas)
                    + LenTras(almacen.cache_busquedas, k) > UMBRAL_LIMPIEZA
            => HuboBarrido
       /\ \A d \in IdsDepartamento, l \in ListasIds :
            AlmacenarIdsDepartamento(d, l)
               /\ TotalEntradas(almacen) - Len(almacen.cache_ids_departamento)
                    + LenTras(almacen.cache_ids_departamento, d) > UMBRAL_LIMPIEZA
            => HuboBarrido
      ]_vars

----------------------------------------------------------------------------
\* no sweep ran in this step: limpiezas_automaticas is the same, region n
\* changed at most in the entry of key k and the other regions not at all
SoloAlmacena(n, k) ==
    /\ SinBarrido
    /\ SoloCambia(n)
    /\ SinClave(RegionesDe(almacen')[n], k) = SinClave(RegionesDe(almacen)[n], k)

(* C14: effect and threshold of the automatic cleanup.  When almacenar_obra *)
(* or almacenar_resultado_busqueda leaves more than 1000 works, searches   *)
(* and lists of ids together (counted after the insertion, the departments *)
(* not counted), limpiezas_automaticas is one more on return and no        *)
(* region, the departments included, holds an expired entry; when it       *)
(* leaves at most 1000 nothing is swept: limpiezas_automaticas is the same *)
(* and the expired entries stay stored.                                    *)
C14_EfectoDeLimpieza ==
    [][/\ \A obra \in Obras :
            AlmacenarObra(obra)
            => IF TotalEntradas(almacen) - Len(almacen.cache_obras)
                    + LenTras(almacen.cache_obras, obra.id_obra) > UMBRAL_LIMPIEZA
               THEN HuboBarrido
               ELSE SoloAlmacena(1, obra.id_obra)
       /\ \A k \in ClavesBusqueda, l \in ListasIds :
            AlmacenarResultadoBusqueda(k, l)
            => IF TotalEntradas(almacen) - Len(almacen.cache_busquedas)
                    + LenTras(almacen.cache_busquedas, k) > UMBRAL_LIMPIEZA
               THEN HuboBarrido
               ELSE SoloAlmacena(3, k)
      ]_vars

\* the put of a search result was the 1001st entry and ran the sweep, which
\* removed the lists of ids and the work stored one TTL of the departments
\* before
C14_Testigo ==
    /\ retorno.op = "almacenar_resultado_busqueda"
    /\ reloj = TIEMPO_VIDA_DEPARTAMENTOS
    /\ almacen.estadisticas.limpiezas_automaticas = 1
    /\ Len(almacen.cache_busquedas) = 1
    /\ almacen.cache_obras = << >>
    /\ almacen.cache_ids_departamento = << >>
    /\ almacen.cache_departamentos = None

----------------------------------------------------------------------------
\* the statistics counters are the same after the step
MismosContadores == almacen'.estadisticas = almacen.estadisticas

(* C15: the asymmetry of the departments and of the lists of ids.          *)
(* almacenar_departamentos, almacenar_ids_departamento and                 *)
(* obtener_ids_departamento leave every statistics counter as it was (no   *)
(* hit, no miss, no limpiezas_automaticas) and run no sweep, whatever the  *)
(* number of entries: the call changes its own region in the entry of its  *)
(* key at most, and every other entry, expired or not, stays stored.       *)
C15_Asimetria ==
    [][/\ \A l \in ListasDepartamentos \cup {NoEsLista} :
            AlmacenarDepartamentos(l) => MismosContadores /\ SoloCambia(2)
       /\ \A d \in IdsDepartamento, l \in ListasIds \cup {NoEsLista} :
            AlmacenarIdsDepartamento(d, l)
            => MismosContadores /\ SoloAlmacena(4, d)
       /\ \A d \in IdsDepartamento :
            ObtenerIdsDepartamento(d) => MismosContadores /\ SoloAlmacena(4, d)
      ]_vars

\* almacenar_ids_departamento has left more than UMBRAL_LIMPIEZA entries, the
\* lists stored at time 0 expired among them, and no sweep has run
C15_Testigo ==
    /\ retorno.op = "almacenar_ids_departamento"
    /\ retorno.valor = None
    /\ TotalEntradas(almacen) > UMBRAL_LIMPIEZA
    /\ reloj = TIEMPO_VIDA_DEPARTAMENTOS
    /\ TieneCaducada(almacen.cache_ids_departamento, UMBRAL_LIMPIEZA + 1)
    /\ almacen.estadisticas.limpiezas_automaticas = 0

----------------------------------------------------------------------------
\* the pairs of dict d that have not expired, in their order
Vigentes(d) == SelectSeq(d, LAMBDA p : ~Caducada(p.entrada))

\* how many pairs of dict d have expired
CuantasCaducadas(d) == Cardinality({i \in DOMAIN d : Caducada(d[i].entrada)})

(* C16: manual cleanup.  limpiar_cache_manual removes from the four        *)
(* regions every entry expired at the time of the call and keeps every     *)
(* valid entry as it was; it returns, for each region, the number of       *)
(* expired entries the region held before the call (0 or 1 for the         *)
(* departments slot); it changes no statistics counter.                    *)
C16_LimpiezaManual ==
    [][LimpiarCacheManual
       => /\ almacen'.cache_obras = Vigentes(almacen.cache_obras)
          /\ almacen'.cache_busquedas = Vigentes(almacen.cache_busquedas)
          /\ almacen'.cache_ids_departamento
               = Vigentes(almacen.cache_ids_departamento)
          /\ almacen'.cache_departamentos
               = IF almacen.cache_departamentos # None
                    /\ Caducada(almacen.cache_departamentos)
                 THEN None
                 ELSE almacen.cache_departamentos
          /\ retorno'.valor.obras_eliminadas
               = CuantasCaducadas(almacen.cache_obras)
          /\ retorno'.valor.busquedas_eliminadas
               = CuantasCaducadas(almacen.cache_busquedas)
          /\ retorno'.valor.ids_departamentos_eliminados
               = CuantasCaducadas(almacen.cache_ids_departamento)
          /\ retorno'.valor.departamentos_eliminados
               = IF almacen.cache_departamentos # None
                    /\ Caducada(almacen.cache_departamentos)
                 THEN 1
                 ELSE 0
          /\ MismosContadores
      ]_vars

\* the manual cleanup has removed one expired work and left a valid one
C16_Testigo ==
    /\ retorno.op = "limpiar_cache_manual"
    /\ retorno.valor.obras_eliminadas = 1
    /\ \E i \in DOMAIN almacen.cache_obras :
         ~Caducada(almacen.cache_obras[i].entrada)

----------------------------------------------------------------------------
\* the positions of dict d whose entry has not expired and whose work is in
\* criterio
Aciertos(d, criterio) ==
    {i \in DOMAIN d : ~Caducada(d[i].entrada) /\ d[i].entrada.datos \in criterio}

(* C17: buscar_obras_por_criterio returns the cached works whose entry is  *)
(* valid at the time of the scan and for which the predicate holds, each   *)
(* once and no others; the expired entries are skipped and not removed:    *)
(* the call changes no region and no counter.                              *)
C17_BusquedaPorCriterio ==
    [][\A c \in Criterios :
         BuscarObrasPorCriterio(c)
         => LET v == retorno'.valor.elems
                a == Aciertos(almacen.cache_obras, c)
            IN  /\ retorno'.valor.tipo = "list"
                /\ Len(v) = Cardinality(a)
                /\ {v[i] : i \in DOMAIN v}
                     = {almacen.cache_obras[i].entrada.datos : i \in a}
                /\ almacen' = almacen
      ]_vars

\* the scan has returned one work and skipped an expired one, still stored
C17_Testigo ==
    /\ retorno.op = "buscar_obras_por_criterio"
    /\ Len(retorno.valor.elems) = 1
    /\ \E i \in DOMAIN almacen.cache_obras :
         Caducada(almacen.cache_obras[i].entrada)

----------------------------------------------------------------------------
\* v is the number hits / (hits + misses), or 0 when there was no lookup
EsRatio(v, hits, misses) ==
    IF hits + misses = 0
    THEN v = Entero(0)
    ELSE /\ v.tipo = "float"
         /\ v.den > 0
         /\ v.num * (hits + misses) = hits * v.den

(* C18: hit ratio.  For the works, the departments and the search results  *)
(* obtener_estadisticas_cache reports hit_ratio = hits / (hits + misses)   *)
(* of the region's counters at the time of the call, and 0 when            *)
(* hits + misses = 0: 0.5 after one hit and one miss, 1 after hits only.   *)
C18_RatioDeAciertos ==
    [][ObtenerEstadisticasCache
       => LET e == almacen.estadisticas
              v == retorno'.valor
          IN  /\ EsRatio(v.hit_ratio_obras, e.hits_obras, e.misses_obras)
              /\ EsRatio(v.hit_ratio_departamentos,
                         e.hits_departamentos, e.misses_departamentos)
              /\ EsRatio(v.hit_ratio_busquedas,
                         e.hits_busquedas, e.misses_busquedas)
      ]_vars

\* the statistics after one hit and one miss on the works: the ratio is 1/2
C18_Testigo ==
    /\ retorno.op = "obtener_estadisticas_cache"
    /\ almacen.estadisticas.hits_obras = 1
    /\ almacen.estadisticas.misses_obras = 1
    /\ retorno.valor.hit_ratio_obras = [tipo |-> "float", num |-> 1, den |-> 2]

----------------------------------------------------------------------------
(* C19: the entry counts of the statistics are physical.  obras_en_cache,  *)
(* busquedas_en_cache and ids_departamentos_en_cache are the numbers of    *)
(* entries stored in their maps and departamentos_en_cache is 1 iff the    *)
(* slot is occupied, the expired entries not yet evicted counted like the  *)
(* valid ones; the call evicts nothing and changes no counter.             *)
C19_CuentasFisicas ==
    [][ObtenerEstadisticasCache
       => LET v == retorno'.valor
          IN  /\ v.obras_en_cache
                   = CuantasCaducadas(almacen.cache_obras)
                     + Len(Vigentes(almacen.cache_obras))
              /\ v.busquedas_en_cache
                   = CuantasCaducadas(almacen.cache_busquedas)
                     + Len(Vigentes(almacen.cache_busquedas))
              /\ v.ids_departamentos_en_cache
                   = CuantasCaducadas(almacen.cache_ids_departamento)
                     + Len(Vigentes(almacen.cache_ids_departamento))
              /\ v.departamentos_en_cache
                   = IF almacen.cache_departamentos = None THEN 0 ELSE 1
              /\ almacen' = almacen
      ]_vars

\* the statistics count a work that has expired and is still stored
C19_Testigo ==
    /\ retorno.op = "obtener_estadisticas_cache"
    /\ retorno.valor.obras_en_cache = 1
    /\ CuantasCaducadas(almacen.cache_obras) = 1

----------------------------------------------------------------------------
\* ten times the KB of a store with decimas_departamentos tenths of KB for an
\* occupied departments slot, 2 KB per work, 0.5 KB per search and 1 KB per
\* list of ids
DecimasDeKB(a, decimas_departamentos) ==
    20 * Len(a.cache_obras)
    + (IF a.cache_departamentos = None THEN 0 ELSE decimas_departamentos)
    + 5 * Len(a.cache_busquedas)
    + 10 * Len(a.cache_ids_departamento)

\* m is x tenths truncated to an integer
Truncado(m, x) == 10 * m <= x /\ x < 10 * m + 10

(* C20, as stated: memoria_estimada_kb is, truncated to an integer, 2 KB   *)
(* per stored work + 0.1 KB for the departments slot if it is occupied +   *)
(* 0.5 KB per stored search result + 1 KB per stored list of ids, so that  *)
(* a store holding only the departments slot reports 0 KB.                 *)
C20_MemoriaSegunLaEspecificacion ==
    [][ObtenerEstadisticasCache
       => Truncado(retorno'.valor.memoria_estimada_kb, DecimasDeKB(almacen, 1))
      ]_vars

(* C20, amended: memoria_estimada_kb is, truncated to an integer, 2 KB per *)
(* stored work + 5 KB for the departments slot if it is occupied + 0.5 KB  *)
(* per stored search result + 1 KB per stored list of ids, so that a       *)
(* store holding only the departments slot reports 5 KB.                   *)
C20_MemoriaEstimada ==
    [][ObtenerEstadisticasCache
       => Truncado(retorno'.valor.memoria_estimada_kb, DecimasDeKB(almacen, 50))
      ]_vars

\* the statistics of a store that holds only the departments slot: 5 KB
C20_Testigo ==
    /\ retorno.op = "obtener_estadisticas_cache"
    /\ almacen.cache_departamentos # None
    /\ TotalEntradas(almacen) = 0
    /\ retorno.valor.memoria_estimada_kb = 5

----------------------------------------------------------------------------
\* the keys of dict d
Claves(d) == {d[i].clave : i \in DOMAIN d}

(* C21: key domain.  After any sequence of public operations of the store  *)
(* no region holds an entry whose key is outside its domain: the works     *)
(* and the lists of ids by department never have a key that is zero or     *)
(* negative.                                                               *)
C21_DominioDeClaves ==
    /\ \A k \in Claves(almacen.cache_obras) : k > 0
    /\ \A k \in Claves(almacen.cache_ids_departamento) : k > 0

----------------------------------------------------------------------------
\* the entries a store holds in region n (1 works, 2 departments,
\* 3 searches, 4 lists of ids)
EntradasDe(a, n) ==
    IF n = 2
    THEN IF a.cache_departamentos = None THEN {} ELSE {a.cache_departamentos}
    ELSE {RegionesDe(a)[n][i].entrada : i \in DOMAIN RegionesDe(a)[n]}

\* the time to live of region n
TiempoDeVidaDe(n) ==
    <<TIEMPO_VIDA_OBRAS, TIEMPO_VIDA_DEPARTAMENTOS, TIEMPO_VIDA_BUSQUEDAS,
      TIEMPO_VIDA_LISTAS_IDS>>[n]

(* C22: time to live by region.  Every entry found in a region was built   *)
(* with the constant of the region (600 s works, 1800 s departments,       *)
(* 300 s searches, 180 s lists of ids), so that the entry is valid exactly *)
(* while less than that time has passed since its own creation, whatever   *)
(* the other regions hold.                                                 *)
C22_TiempoDeVidaPorRegion ==
    \A n \in 1 .. 4 :
        \A e \in EntradasDe(almacen, n) :
            /\ e.tiempo_vida = TiempoDeVidaDe(n)
            /\ es_valida(e, reloj) <=> reloj - e.timestamp < TiempoDeVidaDe(n)

\* the four regions hold an entry at once, the list of ids expired and the
\* three others valid
C22_Testigo ==
    /\ \A n \in 1 .. 4 : EntradasDe(almacen, n) # {}
    /\ \A e \in EntradasDe(almacen, 4) : ~es_valida(e, reloj)
    /\ \A n \in 1 .. 3 : \A e \in EntradasDe(almacen, n) : es_valida(e, reloj)

----------------------------------------------------------------------------
\* the last call was the lookup op of clave, it returned its result, and no
\* entry of the store has reached its TTL since
Repite(op, clave) ==
    /\ retorno.op = op
    /\ retorno.clave = clave
    /\ retorno.valor.tipo \in {"list", "ObraArte"}
    /\ SinCaducadas(almacen)

\* the last call was a search by department that returned the work id_obra,
\* and no entry of the store has reached its TTL since
RecienBuscada(id_obra) ==
    /\ retorno.op = "buscar_por_departamento"
    /\ retorno.valor.tipo = "list"
    /\ \E i \in DOMAIN retorno.valor.elems : retorno.valor.elems[i].id_obra = id_obra
    /\ SinCaducadas(almacen)

\* the step is a lookup of a service that repeats the last call; exito tells
\* which last calls count
RepeticionSinAPI(exito) ==
    /\ \A d \in DepartamentosBuscados :
         Repite("buscar_por_departamento", Entero(d)) /\ exito
           /\ retorno'.op = "buscar_por_departamento"
         => \A ri \in RespuestasIds, ro \in RespuestasObras :
               BuscarPorDepartamento(d, ri, ro) => retorno'.api = 0
    /\ \A n \in NacionalidadesBuscadas :
         perfil = "servicio_texto"
           /\ Repite("buscar_por_nacionalidad", Str(n)) /\ exito
           /\ retorno'.op = "buscar_por_nacionalidad"
         => \A ri \in RespuestasIds, ro \in RespuestasObras :
               BuscarPorNacionalidad(n, ri, ro) => retorno'.api = 0
    /\ \A n \in ArtistasBuscados :
         perfil = "servicio_texto"
           /\ Repite("buscar_por_nombre_artista", Str(n)) /\ exito
           /\ retorno'.op = "buscar_por_nombre_artista"
         => \A ri \in RespuestasIds, ro \in RespuestasObras :
               BuscarPorNombreArtista(n, ri, ro) => retorno'.api = 0
    /\ Repite("obtener_departamentos_disponibles", None) /\ exito
         => \A respuesta \in RespuestasDepartamentos :
               ObtenerDepartamentosDisponibles(respuesta) => retorno'.api = 0
    /\ \A id_obra \in IdsObra :
         (Repite("obtener_detalles_obra", Entero(id_obra))
            \/ RecienBuscada(id_obra))
           /\ exito
           /\ retorno'.op = "obtener_detalles_obra"
         => \A respuesta \in RespuestasDetallesObra(id_obra) :
               ObtenerDetallesObraCompartido(id_obra, respuesta)
               => retorno'.api = 0

----------------------------------------------------------------------------
\* the calls of thread h to the remote API for the work id_obra that were
\* answered with the work
Obtenidas(h, id_obra) == hilos[h].api[id_obra] - hilos[h].fallos[id_obra]

(* C24, as stated: when two threads look up the same uncached work through *)
(* the service on a shared store, the remote API is called at most once    *)
(* for that work: the cache check, the fetch and the write-back of one     *)
(* caller are not interleaved with the cache check of the other.           *)
C24_UnaSolaLlamadaSegunLaEspecificacion ==
    \A id_obra \in IdsObra : Obtenidas(1, id_obra) + Obtenidas(2, id_obra) <= 1

(* C24, amended: when two threads look up the same uncached work through   *)
(* the service on a shared store, the remote API is called at most once    *)
(* per caller for that work (twice in all): the cache check, the fetch and *)
(* the write-back of one caller are separate steps that may interleave     *)
(* with those of the other; the store ends with one entry for the work.    *)
C24_UnaLlamadaPorHilo ==
    /\ \A h \in Hilos, id_obra \in IdsObra : Obtenidas(h, id_obra) <= 1
    /\ \A id_obra \in IdsObra : Apariciones(almacen.cache_obras, id_obra) <= 1

\* both threads have fetched the work 1 from the remote API and the second
\* write-back has replaced the entry of the first
C24_Testigo ==
    /\ \A h \in Hilos : Obtenidas(h, 1) = 1 /\ hilos[h].pc = "ocioso"
    /\ Apariciones(almacen.cache_obras, 1) = 1

\* C25: deadlock freedom. With the threads scheduled fairly and no predicate
\* calling back into the store, every call that waits for the lock gets it,
\* and every call that holds it ends and gives it back, whether it returns,
\* its predicate raises, or its put runs the sweep inside the critical
\* section; a thread outside any call, as after a ValueError, holds no lock.
C25_SinInterbloqueo ==
    /\ [](\A h \in Hilos : hilos[h].pc = "ocioso" => candado # h)
    /\ \A h \in Hilos : (hilos[h].pc = "esperando") ~> (candado = h)
    /\ \A h \in Hilos :
          (candado = h) ~> (hilos[h].pc = "ocioso" /\ candado # h)

\* a put has run the sweep inside its critical section and still holds the
\* lock while the other thread waits for it
C25_Testigo ==
    /\ perfil = "hilos_justo_lleno"
    /\ \E h, g \in Hilos :
        /\ candado = h
        /\ hilos[h].pc = "liberar"
        /\ hilos[h].llamada.nombre = "almacenar_obra"
        /\ almacen.estadisticas.limpiezas_automaticas > 0
        /\ hilos[g].pc = "esperando"

\* C26: buscar_obras_por_criterio calls the predicate while it holds the
\* lock, and the lock is not reentrant: a thread whose predicate calls
\* obtener_obra waits for the lock it holds and never leaves that wait, the
\* lock stays its own, and from then on no other thread enters a critical
\* section: a call that waits for the lock keeps waiting.
C26_BloqueoPorReentrada ==
    [][\A h \in Hilos :
         hilos[h].pc = "reentrando" =>
            /\ candado = h
            /\ candado' = h
            /\ hilos'[h].pc = "reentrando"
            /\ \A g \in Hilos \ {h} :
                  /\ hilos[g].pc \in {"ocioso", "esperando"}
                  /\ hilos'[g].pc \in {"ocioso", "esperando"}
                  /\ hilos[g].pc = "esperando" => hilos'[g].pc = "esperando"]_vars

\* one thread is blocked inside its own scan and the other has called a
\* method and waits for the lock
C26_Testigo ==
    \E h, g \in Hilos :
        /\ hilos[h].pc = "reentrando"
        /\ hilos[h].llamada.nombre = "buscar_obras_por_criterio"
        /\ hilos[g].pc = "esperando"

----------------------------------------------------------------------------
\* the six counters of hits and misses
ContadoresDeConsulta ==
    {"hits_obras", "misses_obras", "hits_departamentos", "misses_departamentos",
     "hits_busquedas", "misses_busquedas"}

\* the methods whose body counts a hit or a miss, and the method of
\* ServicioObras that calls obtener_obra
CuentanConsultas ==
    {"obtener_obra", "obtener_departamentos", "obtener_resultado_busqueda",
     "obtener_detalles_obra"}

\* the methods that run the automatic sweep, and the method of
\* ServicioObras that calls almacenar_obra
CuentanLimpiezas ==
    {"almacenar_obra", "almacenar_resultado_busqueda", "obtener_detalles_obra"}

\* C27: the statistics counters are monotone and each moves only by its own
\* trigger.  No counter ever decreases; a counter of hits or misses changes
\* only in a call of obtener_obra, obtener_departamentos or
\* obtener_resultado_busqueda, and limpiezas_automaticas only in a call of
\* almacenar_obra or almacenar_resultado_busqueda; the invalidar_* methods,
\* limpiar_cache_manual, buscar_obras_por_criterio and
\* obtener_estadisticas_cache leave every counter as it was.
C27_ContadoresMonotonos ==
    [][/\ \A c \in DOMAIN almacen.estadisticas :
            almacen'.estadisticas[c] >= almacen.estadisticas[c]
       /\ (\E c \in ContadoresDeConsulta :
              almacen'.estadisticas[c] # almacen.estadisticas[c])
            => retorno'.op \in CuentanConsultas
       /\ almacen'.estadisticas.limpiezas_automaticas
              # almacen.estadisticas.limpiezas_automaticas
            => retorno'.op \in CuentanLimpiezas
       /\ (\/ InvalidarCacheObras
           \/ InvalidarCacheDepartamentos
           \/ InvalidarCacheBusquedas
           \/ InvalidarTodoCache
           \/ LimpiarCacheManual
           \/ ObtenerEstadisticasCache
           \/ \E c \in Criterios : BuscarObrasPorCriterio(c))
            => MismosContadores
      ]_vars

\* the whole cache has just been invalidated and the counters of a hit and
\* of an automatic sweep made before are still there
C27_Testigo ==
    /\ retorno.op = "invalidar_todo_cache"
    /\ almacen.cache_obras = << >>
    /\ almacen.estadisticas.hits_obras > 0
    /\ almacen.estadisticas.limpiezas_automaticas > 0

----------------------------------------------------------------------------
\* the pairs of dict d
Pares(d) == {d[i] : i \in DOMAIN d}

\* the methods that empty region n
Invalidaciones(n) ==
    {"invalidar_todo_cache"}
    \cup (CASE n = 1 -> {"invalidar_cache_obras"}
            [] n = 2 -> {"invalidar_cache_departamentos"}
            [] n = 3 -> {"invalidar_cache_busquedas"}
            [] n = 4 -> {})

\* call ll is a put that stores under key k of region n
PoneEn(ll, n, k) ==
    CASE n = 1 -> ll.nombre = "almacenar_obra" /\ ll.valor.id_obra = k
      [] n = 3 -> ll.nombre = "almacenar_resultado_busqueda" /\ ll.clave.texto = k
      [] n = 4 -> ll.nombre = "almacenar_ids_departamento" /\ ll.clave.n = k

\* C28: only expired entries are ever evicted, under any interleaving.  An
\* entry that leaves its region in a step had expired at that moment, or
\* the thread inside the critical section runs an invalidar_* method of the
\* region, or it runs a put on the key of the entry, which stays in the
\* region with the new entry.  The threshold is not a capacity: when
\* almacenar_obra leaves more than UMBRAL_LIMPIEZA entries, none of them
\* expired, limpiezas_automaticas is one more and every entry is still there.
C28_SoloSeDesalojanCaducadas ==
    [][almacen' # almacen =>
        /\ candado \in Hilos
        /\ LET ll == hilos[candado].llamada
           IN  /\ \A n \in {1, 3, 4} :
                    RegionesDe(almacen')[n] # RegionesDe(almacen)[n] =>
                      LET quedan == Pares(RegionesDe(almacen')[n])
                      IN  \A p \in Pares(RegionesDe(almacen)[n]) \ quedan :
                            \/ Caducada(p.entrada)
                            \/ ll.nombre \in Invalidaciones(n)
                            \/ /\ PoneEn(ll, n, p.clave)
                               /\ Apariciones(RegionesDe(almacen')[n], p.clave) = 1
               /\ (almacen.cache_departamentos # None
                     /\ almacen'.cache_departamentos # almacen.cache_departamentos)
                    => \/ Caducada(almacen.cache_departamentos)
                       \/ ll.nombre \in Invalidaciones(2)
                       \/ /\ ll.nombre = "almacenar_departamentos"
                          /\ almacen'.cache_departamentos # None
               /\ (ll.nombre = "almacenar_obra"
                     /\ TotalEntradas(almacen') > UMBRAL_LIMPIEZA
                     /\ SinCaducadas(almacen))
                    => /\ almacen'.estadisticas.limpiezas_automaticas
                            = almacen.estadisticas.limpiezas_automaticas + 1
                       /\ almacen'.cache_ids_departamento
                            = almacen.cache_ids_departamento
                       /\ almacen'.cache_busquedas = almacen.cache_busquedas
                       /\ almacen'.cache_departamentos
                            = almacen.cache_departamentos
                       /\ SinClave(almacen'.cache_obras, ll.valor.id_obra)
                            = SinClave(almacen.cache_obras, ll.valor.id_obra)
                       /\ Apariciones(almacen'.cache_obras, ll.valor.id_obra) = 1
      ]_vars

\* the store holds more than UMBRAL_LIMPIEZA entries, none of them expired,
\* after two automatic sweeps that found nothing to remove
C28_Testigo ==
    /\ perfil = "hilos_lleno"
    /\ TotalEntradas(almacen) > UMBRAL_LIMPIEZA
    /\ SinCaducadas(almacen)
    /\ almacen.estadisticas.limpiezas_automaticas >= 2
    /\ Len(almacen.cache_ids_departamento) >= UMBRAL_LIMPIEZA

----------------------------------------------------------------------------
\* dict d holds under key k an empty list that has not expired
GuardaListaVacia(d, k) == TieneVigente(d, k) /\ DatosDe(d, k) = Lista(<< >>)

\* the search of a service was answered with the empty list, from the store
SinResultadosSinAPI == retorno'.valor = Lista(<< >>) /\ retorno'.api = 0

\* C29: an empty list is a cached value, not a miss.  While the empty list
\* stored under a key has not expired, obtener_resultado_busqueda returns
\* it, counts a hit and leaves the entry in place, and
\* obtener_ids_departamento returns it; a search of ServicioBusqueda whose
\* list of ids is stored empty returns the empty list without a call to the
\* remote API.
C29_ListaVaciaEnCache ==
    [][/\ \A k \in ClavesDeServicio :
            ObtenerResultadoBusqueda(k) /\ GuardaListaVacia(almacen.cache_busquedas, k)
            => /\ retorno'.valor = Lista(<< >>)
               /\ almacen'.estadisticas.hits_busquedas
                    = almacen.estadisticas.hits_busquedas + 1
               /\ almacen'.estadisticas.misses_busquedas
                    = almacen.estadisticas.misses_busquedas
               /\ almacen'.cache_busquedas = almacen.cache_busquedas
       /\ \A d \in IdsDepartamento :
            ObtenerIdsDepartamento(d)
              /\ GuardaListaVacia(almacen.cache_ids_departamento, d)
            => retorno'.valor = Lista(<< >>) /\ almacen' = almacen
       /\ \A d \in IdsDepartamento :
            GuardaListaVacia(almacen.cache_ids_departamento, d)
              /\ retorno'.op = "buscar_por_departamento"
            => \A ri \in RespuestasIds, ro \in RespuestasObras :
                  BuscarPorDepartamento(d, ri, ro) => SinResultadosSinAPI
       /\ \A n \in NacionalidadesBuscadas \ {""} :
            perfil = "listas_texto"
              /\ GuardaListaVacia(almacen.cache_busquedas,
                                  "nacionalidad:" \o Minusculas(Recortar(n)))
              /\ retorno'.op = "buscar_por_nacionalidad"
            => \A ri \in RespuestasIds, ro \in RespuestasObras :
                  BuscarPorNacionalidad(n, ri, ro) => SinResultadosSinAPI
       /\ \A n \in ArtistasBuscados :
            perfil = "listas_texto"
              /\ GuardaListaVacia(almacen.cache_busquedas,
                                  "artista:" \o Minusculas(Recortar(n)))
              /\ retorno'.op = "buscar_por_nombre_artista"
            => \A ri \in RespuestasIds, ro \in RespuestasObras :
                  BuscarPorNombreArtista(n, ri, ro) => SinResultadosSinAPI
      ]_vars

\* a search by nationality whose remote result was empty has been repeated:
\* it returned the empty list from the store, which counted the hit
C29_Testigo ==
    /\ retorno.op = "buscar_por_nacionalidad"
    /\ retorno.valor = Lista(<< >>)
    /\ retorno.api = 0
    /\ almacen.estadisticas.hits_busquedas = 1
    /\ almacen.estadisticas.misses_busquedas = 1
    /\ GuardaListaVacia(almacen.cache_busquedas, "nacionalidad:french")

----------------------------------------------------------------------------
\* the pairs of dict d under key k
DeClave(d, k) == SelectSeq(d, LAMBDA p : p.clave = k)

\* the answer of the remote API for a work is not one a search can convert
NoConvertible(datos) ==
    ~isinstance(IF isinstance(datos, "dict")
                THEN convertir_datos_api_a_obra_busqueda(datos)
                ELSE datos,
                "ObraArte")

\* the search that has just run over the ids stored under key k of dict d
\* (its first limite ids) asked the remote API for the work id_obra, got the
\* answers respuestas, and gave the work up
FalloEnBusqueda(d, k, limite, id_obra, respuestas) ==
    /\ TieneVigente(d, k)
    /\ \E i \in DOMAIN Primeros(DatosDe(d, k).elems, limite) :
          DatosDe(d, k).elems[i] = id_obra
    /\ ~TieneVigente(almacen.cache_obras, id_obra)
    /\ NoConvertible(respuestas[id_obra])

\* the last lookup of ServicioObras missed, asked the remote API and failed
FalloDetalles(id_obra) ==
    /\ retorno.op = "obtener_detalles_obra"
    /\ retorno.clave = Entero(id_obra)
    /\ retorno.api = 1
    /\ ~isinstance(retorno.valor, "ObraArte")

\* the step is the search op with argument x and the answers ri and ro
Busca(op, x, ri, ro) ==
    CASE op = "buscar_por_departamento" -> BuscarPorDepartamento(x, ri, ro)
      [] op = "buscar_por_nacionalidad" -> BuscarPorNacionalidad(x, ri, ro)
      [] op = "buscar_por_nombre_artista" -> BuscarPorNombreArtista(x, ri, ro)

\* what is left of the works region after a lookup of id_obra that failed:
\* the region as it was (como_estaba), or the region without the key
Intacta(id_obra, como_estaba) ==
    IF como_estaba
    THEN almacen'.cache_obras = almacen.cache_obras
    ELSE almacen'.cache_obras = SinClave(almacen.cache_obras, id_obra)

\* the same, of the entries under the key alone
IntactaClave(id_obra, como_estaba) ==
    IF como_estaba
    THEN DeClave(almacen'.cache_obras, id_obra) = DeClave(almacen.cache_obras, id_obra)
    ELSE DeClave(almacen'.cache_obras, id_obra) = << >>

\* the search op of x over the ids stored under key k of dict d gave up some
\* work: nothing is stored under its id
BusquedaSinContaminar(op, x, d, k, limite, como_estaba) ==
    (retorno'.op = op /\ retorno'.errores > 0) =>
      \A ro \in RespuestasObras, id_obra \in IdsObra :
         FalloEnBusqueda(d, k, limite, id_obra, ro) =>
            \A ri \in RespuestasIds :
               Busca(op, x, ri, ro)
               => /\ IntactaClave(id_obra, como_estaba)
                  /\ ~TieneVigente(almacen'.cache_obras, id_obra)
                  /\ almacen'.estadisticas.misses_obras
                       > almacen.estadisticas.misses_obras

\* a fetch that fails stores nothing, in ServicioObras and in the searches
FalloSinContaminar(como_estaba) ==
    /\ \A id_obra \in IdsObra :
         retorno'.op = "obtener_detalles_obra"
         => \A respuesta \in RespuestasDetallesObra(id_obra) :
               (ObtenerDetallesObraCompartido(id_obra, respuesta)
                  /\ retorno'.api = 1
                  /\ ~isinstance(retorno'.valor, "ObraArte"))
               => /\ Intacta(id_obra, como_estaba)
                  /\ ~TieneVigente(almacen'.cache_obras, id_obra)
                  /\ almacen'.estadisticas
                       = [almacen.estadisticas EXCEPT !.misses_obras = @ + 1]
                  /\ \A n \in 2 .. 4 :
                       RegionesDe(almacen')[n] = RegionesDe(almacen)[n]
    /\ \A id_obra \in IdsObra :
         FalloDetalles(id_obra) /\ retorno'.op = "obtener_detalles_obra"
         => \A respuesta \in RespuestasDetallesObra(id_obra) :
               ObtenerDetallesObraCompartido(id_obra, respuesta)
               => /\ retorno'.api = 1
                  /\ almacen'.estadisticas.misses_obras
                       = almacen.estadisticas.misses_obras + 1
    /\ \A d \in DepartamentosBuscados :
         BusquedaSinContaminar("buscar_por_departamento", d,
                               almacen'.cache_ids_departamento, d,
                               LIMITE_DEPARTAMENTO, como_estaba)
    /\ \A n \in NacionalidadesBuscadas \ {""} :
         perfil = "servicio_texto"
         => BusquedaSinContaminar("buscar_por_nacionalidad", n,
                                  almacen'.cache_busquedas,
                                  "nacionalidad:" \o Minusculas(Recortar(n)),
                                  LIMITE_NACIONALIDAD, como_estaba)
    /\ \A n \in ArtistasBuscados :
         perfil = "servicio_texto"
         => BusquedaSinContaminar("buscar_por_nombre_artista", n,
                                  almacen'.cache_busquedas,
                                  "artista:" \o Minusculas(Recortar(n)),
                                  LIMITE_ARTISTA, como_estaba)

(* C30, as stated: a failed remote fetch never pollutes the cache.  When,  *)
(* on a miss, the call to the remote API raises or its record fails        *)
(* validation or conversion (in ServicioObras.obtener_detalles_obra and in *)
(* the loop over the works of the searches), no entry is stored for that   *)
(* work: the works region is unchanged and only the works miss counter has *)
(* grown, so a later lookup of the same id misses again and asks the       *)
(* remote API again.                                                       *)
C30_FalloSinContaminarSegunLaEspecificacion ==
    [][FalloSinContaminar(TRUE)]_vars

(* C30, amended: a failed remote fetch never pollutes the cache.  When, on *)
(* a miss, the call to the remote API raises or its record fails           *)
(* validation or conversion, no entry is stored for that work: the works   *)
(* region is unchanged but for the expired entry of that id, if there was  *)
(* one, which the lookup removed, and only the works miss counter has      *)
(* grown, so a later lookup of the same id misses again and asks the       *)
(* remote API again.                                                       *)
C30_FalloSinContaminar ==
    [][FalloSinContaminar(FALSE)]_vars

\* the lookup of a work whose entry had expired asked the remote API, which
\* failed: the entry is gone, the other work is still stored
C30_Testigo ==
    /\ FalloDetalles(1)
    /\ reloj >= TIEMPO_VIDA_OBRAS
    /\ almacen.estadisticas.misses_obras >= 2
    /\ ~DictContiene(almacen.cache_obras, 1)
    /\ DictContiene(almacen.cache_obras, 2)
====
